---- MODULE Spec2Model ----
(***************************************************************************)
(* FRI prover / verifier of 3_polynomial_commitment_scheme and the AIR     *)
(* pipeline of 4_air_constraints_design, as state machines.  The field is  *)
(* a small FFT-friendly prime field standing for Babybear (same interface: *)
(* add, sub, mul, inv, pow, two-adic roots of unity), large enough for the *)
(* 64-point coset of the AIR demo; Keccak is an ideal hash: Merkle digests *)
(* are terms of a free algebra, and a transcript squeeze is a lazily       *)
(* sampled random oracle keyed by everything absorbed so far.              *)
(***************************************************************************)
EXTENDS Integers, Sequences, FiniteSets, TLC

VARIABLES
    input,        \* [claimed_degree, blowup_factor, num_queries]: arguments of FriParameters::new
    poly,         \* Prover.poly: coefficients, ascending powers
    params,       \* FriParameters shared by Prover and Verifier
    oracle,       \* the hash behind DefaultTranscript: transcript state -> squeezed u64
    ppc,          \* position of Prover::prove
    ptranscript,  \* Prover.transcript
    layers,       \* fold_phase: Vec<FriLayer>
    pbetas,       \* the challenges fold_phase sampled, in order
    pindices,     \* query_phase: query_indices
    proof,        \* the FriProof returned by prove
    run,          \* number of Prover instances built so far
    first_proof,  \* the FriProof of the first Prover instance
    tamper,       \* what happened to the proof on its way to the verifier
    sent,         \* the FriProof handed to Verifier::verify
    vpc,          \* position of Verifier::verify
    vtranscript,  \* Verifier.transcript
    vbetas,       \* reconstruct_challenges: betas
    vindices,     \* reconstruct_challenges: query_indices
    query_num,    \* verify: loop counter over query_indices
    result,       \* outcome of Verifier::verify
    apc,              \* position of main of 4_air_constraints_design
    air,              \* [trace_length, blowup_factor] of that main
    fib_trace,        \* the execution trace handed to Arithmetization::new
    corrupted,        \* the trace cell changed before arithmetization, if any
    challenges,       \* what the verifier has sent so far
    arithmetization,  \* Arithmetization
    composition,      \* Composition
    ood,              \* perform_ood_check: h_z and h_z_reconstructed
    deep_composition, \* DeepComposition
    spot,             \* perform_final_spot_check: deep_x0 and deep_x0_reconstructed
    outcome,          \* how the run of main ended
    tk,               \* the multiplicative_inverse test of 1_mathematical_toolkit
    calls             \* what earlier prove and verify calls on the same instances returned

vars == <<input, poly, params, oracle, ppc, ptranscript, layers, pbetas, pindices,
          proof, run, first_proof, tamper, sent, vpc, vtranscript, vbetas,
          vindices, query_num, result, apc, air, fib_trace, corrupted, challenges,
          arithmetization, composition, ood, deep_composition, spot, outcome, tk, calls>>

pvars == <<ppc, ptranscript, layers, pbetas, pindices, proof>>
vvars == <<vpc, vtranscript, vbetas, vindices, query_num, result>>
fvars == <<input, poly, params, oracle, pvars, run, first_proof, tamper, sent, vvars>>
avars == <<apc, air, fib_trace, corrupted, challenges, arithmetization, composition,
           ood, deep_composition, spot, outcome>>

NoValue == [k |-> "none"]

(***************************************************************************)
(* Bounds of the model.                                                    *)
(***************************************************************************)
\* squeezed 64-bit words are drawn from 0..MaxSample and the all-ones word
MaxSample == 0
\* polynomial coefficients are drawn from 0..MaxCoeff
MaxCoeff == 1
\* a corrupted trace cell is off by 1..MaxDelta
MaxDelta == 1

(***************************************************************************)
(* The field F and its elements FE.                                        *)
(***************************************************************************)
\* modulus of F
P == 449
\* F::TWO_ADICITY: the largest k with 2^k | P - 1
TWO_ADICITY == 6
\* F::TWO_ADIC_PRIMITVE_ROOT_OF_UNITY: an element of order 2^TWO_ADICITY
TWO_ADIC_ROOT == 391

FE == 0 .. (P - 1)

FromInt(n) == n % P
Add(a, b) == (a + b) % P
Sub(a, b) == (a - b + P) % P
Mul(a, b) == (a * b) % P
Square(a) == Mul(a, a)

RECURSIVE Pow(_, _)
\* FieldElement::pow: square and multiply
Pow(a, e) ==
    IF e = 0 THEN 1
    ELSE IF e % 2 = 0 THEN Square(Pow(a, e \div 2))
    ELSE Mul(a, Square(Pow(a, e \div 2)))

\* FieldElement::inv: Err for zero, else the inverse
Inv(a) == IF a = 0 THEN NoValue ELSE [k |-> "ok", v |-> Pow(a, P - 2)]

RECURSIVE Pow2(_)
Pow2(n) == IF n = 0 THEN 1 ELSE 2 * Pow2(n - 1)

\* the all-ones 64-bit word, reduced to the width the model's domains can tell apart
U64Max == Pow2(TWO_ADICITY) - 1

RECURSIVE TrailingZeros(_)
\* usize::trailing_zeros; of zero it is the word width, larger than any two-adicity
TrailingZeros(n) ==
    IF n = 0 THEN 64
    ELSE IF n % 2 = 1 THEN 0
    ELSE 1 + TrailingZeros(n \div 2)

\* IsFFTField::get_primitive_root_of_unity: Err when the order exceeds the two-adicity
PrimitiveRootOfUnity(order) ==
    IF order > TWO_ADICITY THEN NoValue
    ELSE [k |-> "ok", v |-> Pow(TWO_ADIC_ROOT, Pow2(TWO_ADICITY - order))]

(***************************************************************************)
(* Polynomials.                                                            *)
(***************************************************************************)
RECURSIVE Trim(_)
\* Polynomial::new drops the trailing zero coefficients
Trim(c) ==
    IF c = <<>> THEN c
    ELSE IF c[Len(c)] = 0 THEN Trim(SubSeq(c, 1, Len(c) - 1))
    ELSE c

PolynomialNew(c) == Trim([i \in 1 .. Len(c) |-> FromInt(c[i])])

\* degree of a normalised coefficient vector (0 for the zero polynomial)
Degree(c) == IF Len(c) = 0 THEN 0 ELSE Len(c) - 1

RECURSIVE Horner(_, _, _, _)
\* the value at x of c[lo] + c[lo+1] x + .. + c[hi] x^(hi-lo), by halves
Horner(c, x, lo, hi) ==
    IF lo = hi THEN c[lo]
    ELSE LET mid == (lo + hi) \div 2
         IN  Add(Horner(c, x, lo, mid),
                 Mul(Pow(x, mid + 1 - lo), Horner(c, x, mid + 1, hi)))

\* Polynomial::evaluate
Evaluate(c, x) == IF Len(c) = 0 THEN 0 ELSE Horner(c, x, 1, Len(c))

\* Polynomial::evaluate_slice
EvaluateSlice(c, xs) == [i \in 1 .. Len(xs) |-> Evaluate(c, xs[i])]

(***************************************************************************)
(* Merkle tree over field elements (MerkleTree<Keccak256Backend<F>>).      *)
(* The hash is ideal: injective, and a digest that was not computed from   *)
(* data (a flipped one) is the hash of nothing.  A digest is written as    *)
(* the term it is the hash of; the hash of a complete subtree is written   *)
(* as its height h and its leaves vs (two such terms are equal exactly     *)
(* when the subtrees are), any other parent as the pair of its children.   *)
(***************************************************************************)
HashData(v) == [h |-> 0, vs |-> <<v>>]
HashNewParent(l, r) ==
    IF l.h >= 0 /\ l.h = r.h
    THEN [h |-> l.h + 1, vs |-> l.vs \o r.vs]
    ELSE [h |-> -1, l |-> l, r |-> r]
\* a digest with one bit flipped
Flipped(d) == [h |-> -2, of |-> d]

RECURSIVE IsPowerOfTwo(_)
IsPowerOfTwo(n) ==
    IF n <= 1 THEN n = 1
    ELSE n % 2 = 0 /\ IsPowerOfTwo(n \div 2)

RECURSIVE CompleteUntilPowerOfTwo(_)
\* the last leaf is repeated until the number of leaves is a power of two
CompleteUntilPowerOfTwo(hs) ==
    IF IsPowerOfTwo(Len(hs)) THEN hs
    ELSE CompleteUntilPowerOfTwo(Append(hs, hs[Len(hs)]))

ParentLevel(hs) ==
    [i \in 1 .. (Len(hs) \div 2) |-> HashNewParent(hs[2 * i - 1], hs[2 * i])]

RECURSIVE RootOfLevel(_)
RootOfLevel(hs) == IF Len(hs) = 1 THEN hs[1] ELSE RootOfLevel(ParentLevel(hs))

HashLeaves(values) == [i \in 1 .. Len(values) |-> HashData(values[i])]

\* MerkleTree::build(..).root; None for no leaves
MerkleRoot(values) ==
    IF Len(values) = 0 THEN NoValue
    ELSE RootOfLevel(CompleteUntilPowerOfTwo(HashLeaves(values)))

RECURSIVE PathOfLevel(_, _)
\* siblings from the leaf level up; pos is 0-based
PathOfLevel(hs, pos) ==
    IF Len(hs) = 1 THEN <<>>
    ELSE <<hs[(IF pos % 2 = 0 THEN pos + 1 ELSE pos - 1) + 1]>>
             \o PathOfLevel(ParentLevel(hs), pos \div 2)

\* MerkleTree::get_proof_by_pos(pos).unwrap().merkle_path
MerklePath(values, pos) ==
    PathOfLevel(CompleteUntilPowerOfTwo(HashLeaves(values)), pos)

RECURSIVE ClimbPath(_, _, _, _)
ClimbPath(hashed, path, index, i) ==
    IF i > Len(path) THEN hashed
    ELSE ClimbPath(IF index % 2 = 0 THEN HashNewParent(hashed, path[i])
                   ELSE HashNewParent(path[i], hashed),
                   path, index \div 2, i + 1)

\* Proof::verify(root, index, value)
MerkleVerify(path, root, index, value) ==
    ClimbPath(HashData(value), path, index, 1) = root

(***************************************************************************)
(* Fiat-Shamir transcript (DefaultTranscript<F>).  The state is what was   *)
(* absorbed and squeezed so far; a squeeze is the hash of that state.      *)
(***************************************************************************)
PROTOCOL_ID == "Educational FRI"

\* DefaultTranscript::new(data)
TranscriptNew(data) == <<[k |-> "bytes", s |-> data]>>

\* IsTranscript::append_bytes
AppendBytes(t, bytes) == Append(t, bytes)

\* FieldElement::as_bytes
AsBytes(v) == [k |-> "fe", v |-> v]

\* the state DefaultTranscript::sample leaves behind
AfterSample(t) == Append(t, [k |-> "squeeze"])

\* the 64-bit words a squeeze may return in the model
RawSamples == (0 .. MaxSample) \cup {U64Max}

\* what the hash returns in state t: fixed once it has been asked
Draws(t) == IF t \in DOMAIN oracle THEN {oracle[t]} ELSE RawSamples

Recorded(t, raw) == IF t \in DOMAIN oracle THEN oracle ELSE (t :> raw) @@ oracle

\* IsTranscript::sample_field_element, from the squeezed word
SampleFieldElement(raw) == raw % P

\* sample_index: u64::from_be_bytes(sample_bytes) % max_value
SampleIndex(raw, max_value) == raw % max_value

(***************************************************************************)
(* types.rs                                                                *)
(***************************************************************************)
\* FriParameters::new; None stands for the panic of unwrap()
FriParametersNew(claimed_degree, blowup_factor, num_queries) ==
    LET domain_size == (claimed_degree + 1) * blowup_factor
        root_order == TrailingZeros(domain_size)
        generator == PrimitiveRootOfUnity(root_order)
    IN  IF generator = NoValue THEN NoValue
        ELSE [k |-> "ok",
              domain_0 |-> [i \in 1 .. domain_size |-> Pow(generator.v, i - 1)],
              num_queries |-> num_queries,
              domain_0_size |-> domain_size]

FriLayer(evaluations, root, domain) ==
    [evaluations |-> evaluations, root |-> root, domain |-> domain]

EmptyDecommitment ==
    [layer_evaluations |-> <<>>, layer_auth_paths |-> <<>>,
     layer_evaluations_sym |-> <<>>, layer_auth_paths_sym |-> <<>>]

(***************************************************************************)
(* prover.rs                                                               *)
(***************************************************************************)
Max(a, b) == IF a >= b THEN a ELSE b

\* fold_evaluations with the odd part not divided by x
FoldEvaluationsNoXInv(evaluations, domain, beta) ==
    LET next_domain_size == Len(domain) \div 2
        two_inv == Inv(FromInt(2)).v
        folded(i) ==
            LET y == evaluations[i]
                y_symmetric == evaluations[i + next_domain_size]
                f_even == Mul(Add(y, y_symmetric), two_inv)
                f_odd == Mul(Sub(y, y_symmetric), two_inv)
            IN  Add(f_even, Mul(beta, f_odd))
    IN  <<[i \in 1 .. next_domain_size |-> folded(i)],
          [i \in 1 .. next_domain_size |-> Square(domain[i])]>>

\* fold_evaluations pairing each evaluation with its neighbour instead of the one at -x
FoldEvaluationsNeighbour(evaluations, domain, beta) ==
    LET next_domain_size == Len(domain) \div 2
        two_inv == Inv(FromInt(2)).v
        folded(i) ==
            LET y == evaluations[i]
                y_symmetric == evaluations[i + 1]
                x == domain[i]
                x_inv == Inv(x).v
                f_even == Mul(Add(y, y_symmetric), two_inv)
                f_odd == Mul(Mul(Sub(y, y_symmetric), two_inv), x_inv)
            IN  Add(f_even, Mul(beta, f_odd))
    IN  <<[i \in 1 .. next_domain_size |-> folded(i)],
          [i \in 1 .. next_domain_size |-> Square(domain[i])]>>

\* fold_evaluations keeping the first half of the domain without squaring it
FoldEvaluationsNoSquare(evaluations, domain, beta) ==
    LET next_domain_size == Len(domain) \div 2
        two_inv == Inv(FromInt(2)).v
        folded(i) ==
            LET y == evaluations[i]
                y_symmetric == evaluations[i + next_domain_size]
                x == domain[i]
                x_inv == Inv(x).v
                f_even == Mul(Add(y, y_symmetric), two_inv)
                f_odd == Mul(Mul(Sub(y, y_symmetric), two_inv), x_inv)
            IN  Add(f_even, Mul(beta, f_odd))
    IN  <<[i \in 1 .. next_domain_size |-> folded(i)],
          [i \in 1 .. next_domain_size |-> domain[i]]>>

\* fold_evaluations reading y_symmetric at the index of y
FoldEvaluationsFirstHalf(evaluations, domain, beta) ==
    LET next_domain_size == Len(domain) \div 2
        two_inv == Inv(FromInt(2)).v
        folded(i) ==
            LET y == evaluations[i]
                y_symmetric == evaluations[i]
                x == domain[i]
                x_inv == Inv(x).v
                f_even == Mul(Add(y, y_symmetric), two_inv)
                f_odd == Mul(Mul(Sub(y, y_symmetric), two_inv), x_inv)
            IN  Add(f_even, Mul(beta, f_odd))
    IN  <<[i \in 1 .. next_domain_size |-> folded(i)],
          [i \in 1 .. next_domain_size |-> Square(domain[i])]>>

\* Prover::fold_evaluations: <<next_evaluations, next_domain>>
FoldEvaluations(evaluations, domain, beta) ==
    LET next_domain_size == Len(domain) \div 2
        two_inv == Inv(FromInt(2)).v
        folded(i) ==
            LET y == evaluations[i]
                y_symmetric == evaluations[i + next_domain_size]
                x == domain[i]
                x_inv == Inv(x).v
                f_even == Mul(Add(y, y_symmetric), two_inv)
                f_odd == Mul(Mul(Sub(y, y_symmetric), two_inv), x_inv)
            IN  Add(f_even, Mul(beta, f_odd))
    IN  <<[i \in 1 .. next_domain_size |-> folded(i)],
          [i \in 1 .. next_domain_size |-> Square(domain[i])]>>

RECURSIVE DecommitNeighbour(_, _, _, _)
\* query_phase opening, as the symmetric point, the neighbour of the query index
DecommitNeighbour(ls, i, query_idx, d) ==
    IF i > Len(ls) THEN d
    ELSE LET layer == ls[i]
             domain_size == Len(layer.domain)
             sym_idx == (query_idx + 1) % domain_size
         IN  DecommitNeighbour(ls, i + 1, query_idx % Max(domain_size \div 2, 1),
                 [layer_evaluations |->
                      Append(d.layer_evaluations, layer.evaluations[query_idx + 1]),
                  layer_auth_paths |->
                      Append(d.layer_auth_paths, MerklePath(layer.evaluations, query_idx)),
                  layer_evaluations_sym |->
                      Append(d.layer_evaluations_sym, layer.evaluations[sym_idx + 1]),
                  layer_auth_paths_sym |->
                      Append(d.layer_auth_paths_sym, MerklePath(layer.evaluations, sym_idx))])

RECURSIVE Decommit(_, _, _, _)
\* query_phase, the walk over the layers for one query index (0-based)
Decommit(ls, i, query_idx, d) ==
    IF i > Len(ls) THEN d
    ELSE LET layer == ls[i]
             domain_size == Len(layer.domain)
             sym_idx == (query_idx + domain_size \div 2) % domain_size
         IN  Decommit(ls, i + 1, query_idx % Max(domain_size \div 2, 1),
                 [layer_evaluations |->
                      Append(d.layer_evaluations, layer.evaluations[query_idx + 1]),
                  layer_auth_paths |->
                      Append(d.layer_auth_paths, MerklePath(layer.evaluations, query_idx)),
                  layer_evaluations_sym |->
                      Append(d.layer_evaluations_sym, layer.evaluations[sym_idx + 1]),
                  layer_auth_paths_sym |->
                      Append(d.layer_auth_paths_sym, MerklePath(layer.evaluations, sym_idx))])

\* Prover::new taking over the transcript of the instance before it
ProverNewSharedTranscript ==
    /\ ppc = "new"
    /\ ppc' = "commit"
    /\ ptranscript' = IF run = 0 THEN TranscriptNew(PROTOCOL_ID) ELSE ptranscript
    /\ layers' = <<>>
    /\ pbetas' = <<>>
    /\ pindices' = <<>>
    /\ proof' = NoValue
    /\ run' = run + 1
    /\ UNCHANGED <<tk, calls, avars, input, poly, params, oracle, first_proof, tamper, sent, vvars>>

\* Prover::new
ProverNew ==
    /\ ppc = "new"
    /\ ppc' = "commit"
    /\ ptranscript' = TranscriptNew(PROTOCOL_ID)
    /\ layers' = <<>>
    /\ pbetas' = <<>>
    /\ pindices' = <<>>
    /\ proof' = NoValue
    /\ run' = run + 1
    /\ UNCHANGED <<tk, calls, avars, input, poly, params, oracle, first_proof, tamper, sent, vvars>>

\* Prover::commit_phase
CommitPhase ==
    /\ ppc = "commit"
    /\ LET evaluations == EvaluateSlice(poly, params.domain_0)
           root == MerkleRoot(evaluations)
       IN  /\ ptranscript' = AppendBytes(ptranscript, root)
           /\ layers' = <<FriLayer(evaluations, root, params.domain_0)>>
    /\ ppc' = "fold"
    /\ UNCHANGED <<tk, calls, avars, input, poly, params, oracle, pbetas, pindices, proof, run,
                   first_proof, tamper, sent, vvars>>

\* Prover::fold_phase, one turn of the loop
FoldRound ==
    /\ ppc = "fold"
    /\ Len(layers[Len(layers)].evaluations) > 1
    /\ \E raw \in Draws(ptranscript) :
          LET beta == SampleFieldElement(raw)
              previous_layer == layers[Len(layers)]
              next == FoldEvaluations(previous_layer.evaluations,
                                      previous_layer.domain, beta)
              root == MerkleRoot(next[1])
          IN  /\ oracle' = Recorded(ptranscript, raw)
              /\ pbetas' = Append(pbetas, beta)
              /\ ptranscript' = AppendBytes(AfterSample(ptranscript), root)
              /\ layers' = Append(layers, FriLayer(next[1], root, next[2]))
    /\ UNCHANGED <<tk, calls, avars, input, poly, params, ppc, pindices, proof, run, first_proof,
                   tamper, sent, vvars>>

\* last_value read from the first layer instead of the last
LastValueOfFirstLayer == layers[1].evaluations[1]

\* the final layer of a finished fold phase
LastValue == layers[Len(layers)].evaluations[1]

\* fold_phase returning without the last value in the transcript
FoldFinishNoAbsorb ==
    /\ ppc = "fold"
    /\ Len(layers[Len(layers)].evaluations) <= 1
    /\ ppc' = "query"
    /\ UNCHANGED <<tk, calls, avars, input, poly, params, oracle, ptranscript, layers, pbetas,
                   pindices, proof, run, first_proof, tamper, sent, vvars>>

\* Prover::fold_phase, after the loop: the last value goes into the transcript
FoldFinish ==
    /\ ppc = "fold"
    /\ Len(layers[Len(layers)].evaluations) <= 1
    /\ ptranscript' = AppendBytes(ptranscript, AsBytes(LastValue))
    /\ ppc' = "query"
    /\ UNCHANGED <<tk, calls, avars, input, poly, params, oracle, layers, pbetas, pindices, proof,
                   run, first_proof, tamper, sent, vvars>>

\* Prover::query_phase, one sample_index of the query_indices collect
QuerySample ==
    /\ ppc = "query"
    /\ Len(pindices) < params.num_queries
    /\ \E raw \in Draws(ptranscript) :
          /\ oracle' = Recorded(ptranscript, raw)
          /\ pindices' = Append(pindices, SampleIndex(raw, params.domain_0_size))
          /\ ptranscript' = AfterSample(ptranscript)
    /\ UNCHANGED <<tk, calls, avars, input, poly, params, ppc, layers, pbetas, proof, run,
                   first_proof, tamper, sent, vvars>>

\* Prover::query_phase, the decommitments, and the FriProof prove returns
QueryPhase ==
    /\ ppc = "query"
    /\ Len(pindices) = params.num_queries
    /\ proof' = [k |-> "proof",
                 layer_commitments |-> [i \in 1 .. Len(layers) |-> layers[i].root],
                 last_layer_value |-> LastValue,
                 query_decommitments |->
                     [q \in 1 .. Len(pindices) |->
                         Decommit(layers, 1, pindices[q], EmptyDecommitment)]]
    /\ ppc' = "done"
    /\ UNCHANGED <<tk, calls, avars, input, poly, params, oracle, ptranscript, layers, pbetas,
                   pindices, run, first_proof, tamper, sent, vvars>>

(***************************************************************************)
(* The proof on its way from prove() to verify(): handed over as it is, or *)
(* changed by whoever carries it.                                          *)
(***************************************************************************)
Untouched == [kind |-> "none"]

\* prove has returned and verify has not been called yet
InTransit == ppc = "done" /\ vpc = "idle"

Handed(pr, how) ==
    /\ sent' = pr
    /\ tamper' = how
    /\ vpc' = "new"
    /\ UNCHANGED <<tk, calls, avars, input, poly, params, oracle, pvars, run, first_proof,
                   vtranscript, vbetas, vindices, query_num, result>>

\* main: the proof returned by prove is the one verify is called with
Deliver == InTransit /\ Handed(proof, Untouched)

\* the field elements put in the place of v
Replacements(v) == {Add(v, d) : d \in 1 .. (MaxSample + 1)}

\* one bit of one layer commitment flipped
TamperCommitment ==
    InTransit /\ \E i \in 1 .. Len(proof.layer_commitments) :
        Handed([proof EXCEPT !.layer_commitments[i] = Flipped(@)],
               [kind |-> "commitment", layer |-> i - 1])

\* one opened evaluation (y or y_sym) of one query replaced
TamperOpening ==
    InTransit /\ \E q \in 1 .. Len(proof.query_decommitments) :
      \E i \in 1 .. Len(proof.query_decommitments[q].layer_evaluations) :
        \E sym \in BOOLEAN :
          \E v \in Replacements(IF sym
                                THEN proof.query_decommitments[q].layer_evaluations_sym[i]
                                ELSE proof.query_decommitments[q].layer_evaluations[i]) :
            Handed(IF sym
                   THEN [proof EXCEPT !.query_decommitments[q].layer_evaluations_sym[i] = v]
                   ELSE [proof EXCEPT !.query_decommitments[q].layer_evaluations[i] = v],
                   [kind |-> "opening", query |-> q - 1, layer |-> i - 1, sym |-> sym])

\* the last layer value replaced
TamperLastValue ==
    InTransit /\ \E v \in Replacements(proof.last_layer_value) :
        Handed([proof EXCEPT !.last_layer_value = v], [kind |-> "last_value"])

Prefix(s, n) == SubSeq(s, 1, n)

\* the list of layer commitments cut short
TruncateCommitments ==
    InTransit /\ \E n \in 0 .. (Len(proof.layer_commitments) - 1) :
        Handed([proof EXCEPT !.layer_commitments = Prefix(@, n)],
               [kind |-> "fewer_commitments", kept |-> n])

RepeatLast(s) == IF Len(s) = 0 THEN s ELSE Append(s, s[Len(s)])

ExtendDecommitment(d) ==
    [layer_evaluations |-> RepeatLast(d.layer_evaluations),
     layer_auth_paths |-> RepeatLast(d.layer_auth_paths),
     layer_evaluations_sym |-> RepeatLast(d.layer_evaluations_sym),
     layer_auth_paths_sym |-> RepeatLast(d.layer_auth_paths_sym)]

\* one more layer than the domain has: the last commitment and its openings repeated
ExtendCommitments ==
    InTransit /\
    Handed([proof EXCEPT !.layer_commitments = RepeatLast(@),
                         !.query_decommitments =
                             [q \in 1 .. Len(@) |-> ExtendDecommitment(@[q])]],
           [kind |-> "more_commitments"])

ShortenDecommitment(d) ==
    [layer_evaluations |-> Prefix(d.layer_evaluations, Len(d.layer_evaluations) - 1),
     layer_auth_paths |-> Prefix(d.layer_auth_paths, Len(d.layer_auth_paths) - 1),
     layer_evaluations_sym |->
         Prefix(d.layer_evaluations_sym, Len(d.layer_evaluations_sym) - 1),
     layer_auth_paths_sym |->
         Prefix(d.layer_auth_paths_sym, Len(d.layer_auth_paths_sym) - 1)]

\* the per-layer lists of one query decommitment cut short
TruncateDecommitment ==
    InTransit /\ \E q \in 1 .. Len(proof.query_decommitments) :
        Handed([proof EXCEPT !.query_decommitments[q] = ShortenDecommitment(@)],
               [kind |-> "short_decommitment", query |-> q - 1])

\* the list of query decommitments cut short
TruncateQueries ==
    InTransit /\ \E n \in 0 .. (Len(proof.query_decommitments) - 1) :
        Handed([proof EXCEPT !.query_decommitments = Prefix(@, n)],
               [kind |-> "fewer_queries", kept |-> n])

\* the FriProof a prover assembles from layers, a last value and query indices
FriProofOf(ls, last_layer_value, indices) ==
    [k |-> "proof",
     layer_commitments |-> [i \in 1 .. Len(ls) |-> ls[i].root],
     last_layer_value |-> last_layer_value,
     query_decommitments |->
         [q \in 1 .. Len(indices) |-> Decommit(ls, 1, indices[q], EmptyDecommitment)]]

\* a layer with every evaluation moved by delta, and the Merkle root of that
OffsetLayer(layer, delta) ==
    LET evaluations == [i \in 1 .. Len(layer.evaluations) |->
                           Add(layer.evaluations[i], delta)]
    IN  FriLayer(evaluations, MerkleRoot(evaluations), layer.domain)

\* a prover that commits, for one layer after the first, to other evaluations
\* than the fold of the layer before, opens what it committed to, and keeps the
\* last value the honest fold gives
ForgeLayer ==
    InTransit /\ \E j \in 2 .. Len(layers), delta \in 1 .. (MaxSample + 1) :
        Handed(FriProofOf([layers EXCEPT ![j] = OffsetLayer(@, delta)],
                          proof.last_layer_value, pindices),
               [kind |-> "forged_layer", layer |-> j - 1])

(***************************************************************************)
(* verifier.rs                                                             *)
(***************************************************************************)
Ok == [k |-> "Ok"]
InvalidMerkleProof == [k |-> "InvalidMerkleProof"]
InconsistentFolding(layer, expected, got) ==
    [k |-> "InconsistentFolding", layer |-> layer, expected |-> expected, got |-> got]
\* the thread panicked: an index out of bounds, a remainder by zero, an unwrap of None
Panic(why) == [k |-> "panic", why |-> why]

\* usize >> i
Shr(n, i) == n \div Pow2(i)

RECURSIVE MerkleLoopNoSym(_, _, _, _, _)
\* verify_merkle_paths authenticating only the opening at the query index
MerkleLoopNoSym(pr, n0, d, i, current_idx) ==
    IF i >= Len(pr.layer_commitments) THEN Ok
    ELSE LET domain_size == Shr(n0, i) IN
         IF domain_size = 0 THEN Panic("remainder by zero")
         ELSE IF i >= Len(d.layer_auth_paths) \/ i >= Len(d.layer_evaluations)
         THEN Panic("index out of bounds")
         ELSE IF ~MerkleVerify(d.layer_auth_paths[i + 1], pr.layer_commitments[i + 1],
                               current_idx, d.layer_evaluations[i + 1])
         THEN InvalidMerkleProof
         ELSE MerkleLoopNoSym(pr, n0, d, i + 1, current_idx % Max(domain_size \div 2, 1))

RECURSIVE MerkleLoop(_, _, _, _, _)
\* Verifier::verify_merkle_paths, the loop from layer i (0-based) on
MerkleLoop(pr, n0, d, i, current_idx) ==
    IF i >= Len(pr.layer_commitments) THEN Ok
    ELSE LET domain_size == Shr(n0, i) IN
         IF domain_size = 0 THEN Panic("remainder by zero")
         ELSE LET sym_idx == (current_idx + domain_size \div 2) % domain_size
                  commitment == pr.layer_commitments[i + 1]
              IN  IF i >= Len(d.layer_auth_paths) \/ i >= Len(d.layer_evaluations)
                  THEN Panic("index out of bounds")
                  ELSE IF ~MerkleVerify(d.layer_auth_paths[i + 1], commitment,
                                        current_idx, d.layer_evaluations[i + 1])
                  THEN InvalidMerkleProof
                  ELSE IF i >= Len(d.layer_auth_paths_sym)
                          \/ i >= Len(d.layer_evaluations_sym)
                  THEN Panic("index out of bounds")
                  ELSE IF ~MerkleVerify(d.layer_auth_paths_sym[i + 1], commitment,
                                        sym_idx, d.layer_evaluations_sym[i + 1])
                  THEN InvalidMerkleProof
                  ELSE MerkleLoop(pr, n0, d, i + 1,
                                  current_idx % Max(domain_size \div 2, 1))

RECURSIVE CurrentIdx(_, _, _)
\* verify_merkle_paths: current_idx when the loop enters layer i (0-based)
CurrentIdx(n0, i, query_idx) ==
    IF i = 0 THEN query_idx
    ELSE CurrentIdx(n0, i - 1, query_idx) % Max(Shr(n0, i - 1) \div 2, 1)

\* verify_merkle_paths: sym_idx in layer i (0-based)
SymIdx(n0, i, query_idx) ==
    LET domain_size == Shr(n0, i)
    IN  (CurrentIdx(n0, i, query_idx) + domain_size \div 2) % domain_size

\* verify_merkle_paths that checks nothing
VerifyMerklePathsSkipped(pr, n0, query_idx, d) == Ok

\* Verifier::verify_merkle_paths
VerifyMerklePaths(pr, n0, query_idx, d) == MerkleLoop(pr, n0, d, 0, query_idx)

\* verify_folding_consistency: the folded value the verifier recomputes at layer i
ExpectedChild(y, y_sym, x, beta) ==
    LET x_inv == Inv(x).v
        two_inv == Inv(FromInt(2)).v
        f_even == Mul(Add(y, y_sym), two_inv)
        f_odd == Mul(Mul(Sub(y, y_sym), two_inv), x_inv)
    IN  Add(f_even, Mul(beta, f_odd))

RECURSIVE FoldingLoop(_, _, _, _, _, _, _)
\* Verifier::verify_folding_consistency, the loop from layer i (0-based) down
FoldingLoop(n0, query_idx, d, betas, generator, i, claimed_child_evaluation) ==
    IF i < 0 THEN Ok
    ELSE IF i >= Len(d.layer_evaluations) \/ i >= Len(d.layer_evaluations_sym)
    THEN Panic("index out of bounds")
    ELSE LET y == d.layer_evaluations[i + 1]
             y_sym == d.layer_evaluations_sym[i + 1]
             domain_size == Shr(n0, i)
         IN  IF domain_size = 0 THEN Panic("remainder by zero")
             ELSE LET current_query_idx_in_layer == query_idx % domain_size
                      g_i == Pow(generator, Pow2(i))
                      x == Pow(g_i, current_query_idx_in_layer)
                  IN  IF Inv(x) = NoValue THEN Panic("unwrap of Err")
                      ELSE IF i >= Len(betas) THEN Panic("index out of bounds")
                      ELSE LET expected_child_evaluation ==
                                   ExpectedChild(y, y_sym, x, betas[i + 1])
                           IN  IF claimed_child_evaluation # expected_child_evaluation
                               THEN InconsistentFolding(i, expected_child_evaluation,
                                                        claimed_child_evaluation)
                               ELSE FoldingLoop(n0, query_idx, d, betas, generator,
                                                i - 1, y)

\* verify_folding_consistency starting from the opened last layer, not from last_layer_value
VerifyFoldingConsistencyFromOpening(pr, n0, query_idx, d, betas, generator) ==
    IF Len(pr.layer_commitments) = 0 THEN Panic("subtract with overflow")
    ELSE FoldingLoop(n0, query_idx, d, betas, generator,
                     Len(pr.layer_commitments) - 2,
                     d.layer_evaluations[Len(pr.layer_commitments)])

\* Verifier::verify_folding_consistency
VerifyFoldingConsistency(pr, n0, query_idx, d, betas, generator) ==
    IF Len(pr.layer_commitments) = 0 THEN Panic("subtract with overflow")
    ELSE FoldingLoop(n0, query_idx, d, betas, generator,
                     Len(pr.layer_commitments) - 2, pr.last_layer_value)

\* verify_query running the folding check before the Merkle check
VerifyQueryFoldingFirst(pr, n0, query_idx, betas, generator, d) ==
    LET folding == VerifyFoldingConsistency(pr, n0, query_idx, d, betas, generator)
    IN  IF folding # Ok THEN folding
        ELSE VerifyMerklePaths(pr, n0, query_idx, d)

\* Verifier::verify_query
VerifyQuery(pr, n0, query_idx, betas, generator, d) ==
    LET merkle == VerifyMerklePaths(pr, n0, query_idx, d)
    IN  IF merkle # Ok THEN merkle
        ELSE VerifyFoldingConsistency(pr, n0, query_idx, d, betas, generator)

\* Verifier::new
VerifierNew ==
    /\ vpc = "new"
    /\ vtranscript' = TranscriptNew(PROTOCOL_ID)
    /\ vbetas' = <<>>
    /\ vindices' = <<>>
    /\ query_num' = 0
    /\ result' = NoValue
    /\ vpc' = "absorb"
    /\ UNCHANGED <<tk, calls, avars, input, poly, params, oracle, pvars, run, first_proof, tamper, sent>>

\* reconstruct_challenges: proof.layer_commitments[0] goes into the transcript
AbsorbFirstCommitment ==
    /\ vpc = "absorb"
    /\ IF Len(sent.layer_commitments) = 0
       THEN /\ result' = Panic("index out of bounds")
            /\ vpc' = "done"
            /\ UNCHANGED vtranscript
       ELSE /\ vtranscript' = AppendBytes(vtranscript, sent.layer_commitments[1])
            /\ vpc' = "betas"
            /\ UNCHANGED result
    /\ UNCHANGED <<tk, calls, avars, input, poly, params, oracle, pvars, run, first_proof, tamper, sent,
                   vbetas, vindices, query_num>>

\* the commitment absorbed before the challenge is squeezed
ReplayCommitmentAbsorbFirst(t, commitment) == AfterSample(AppendBytes(t, commitment))

\* what reconstruct_challenges does with one commitment after the first
ReplayCommitment(t, commitment) == AppendBytes(AfterSample(t), commitment)

\* reconstruct_challenges: one turn of the map over layer_commitments.skip(1)
ReconstructBeta ==
    /\ vpc = "betas"
    /\ Len(vbetas) < Len(sent.layer_commitments) - 1
    /\ \E raw \in Draws(vtranscript) :
          /\ oracle' = Recorded(vtranscript, raw)
          /\ vbetas' = Append(vbetas, SampleFieldElement(raw))
          /\ vtranscript' =
                 ReplayCommitment(vtranscript, sent.layer_commitments[Len(vbetas) + 2])
    /\ UNCHANGED <<tk, calls, avars, input, poly, params, pvars, run, first_proof, tamper, sent, vpc,
                   vindices, query_num, result>>

\* reconstruct_challenges: the last layer value goes into the transcript
AbsorbLastValue ==
    /\ vpc = "betas"
    /\ Len(vbetas) = Len(sent.layer_commitments) - 1
    /\ vtranscript' = AppendBytes(vtranscript, AsBytes(sent.last_layer_value))
    /\ vpc' = "indices"
    /\ UNCHANGED <<tk, calls, avars, input, poly, params, oracle, pvars, run, first_proof, tamper, sent,
                   vbetas, vindices, query_num, result>>

\* the number of query indices reconstruct_challenges samples
IndicesToSample(pr) == Len(pr.query_decommitments)

\* reconstruct_challenges: one sample_index of the query_indices collect
ReconstructIndex ==
    /\ vpc = "indices"
    /\ Len(vindices) < IndicesToSample(sent)
    /\ \E raw \in Draws(vtranscript) :
          /\ oracle' = Recorded(vtranscript, raw)
          /\ vindices' = Append(vindices, SampleIndex(raw, params.domain_0_size))
          /\ vtranscript' = AfterSample(vtranscript)
    /\ UNCHANGED <<tk, calls, avars, input, poly, params, pvars, run, first_proof, tamper, sent, vpc,
                   vbetas, query_num, result>>

\* verify: the generator of the initial domain
VerifierGenerator ==
    PrimitiveRootOfUnity(TrailingZeros(params.domain_0_size)).v

\* verify: one turn of the loop over the query indices; an Err ends verify
VerifyNextQuery ==
    /\ vpc = "indices"
    /\ Len(vindices) = IndicesToSample(sent)
    /\ query_num < Len(vindices)
    /\ LET r == VerifyQuery(sent, params.domain_0_size, vindices[query_num + 1],
                            vbetas, VerifierGenerator,
                            sent.query_decommitments[query_num + 1])
       IN  IF r = Ok
           THEN /\ query_num' = query_num + 1
                /\ UNCHANGED <<vpc, result>>
           ELSE /\ result' = r
                /\ vpc' = "done"
                /\ UNCHANGED query_num
    /\ UNCHANGED <<tk, calls, avars, input, poly, params, oracle, pvars, run, first_proof, tamper, sent,
                   vtranscript, vbetas, vindices>>

\* verify: every query passed
VerifyOk ==
    /\ vpc = "indices"
    /\ Len(vindices) = IndicesToSample(sent)
    /\ query_num = Len(vindices)
    /\ result' = Ok
    /\ vpc' = "done"
    /\ UNCHANGED <<tk, calls, avars, input, poly, params, oracle, pvars, run, first_proof, tamper, sent,
                   vtranscript, vbetas, vindices, query_num>>

(***************************************************************************)
(* 4_air_constraints_design: the execution trace, its arithmetization, the *)
(* composition polynomial with its out-of-domain check, and the DEEP       *)
(* composition polynomial with its final spot check.  A function that can  *)
(* panic returns Panic(..) or a record with k = "ok".                      *)
(***************************************************************************)
\* Iterator::collect into a Vec
Collect(v) == SubSeq(v, 1, Len(v))

RECURSIVE FibonacciLoop(_, _)
\* generate_fibonacci_trace: the loop `for i in 2..trace_length`
FibonacciLoop(trace, trace_length) ==
    IF Len(trace) >= trace_length THEN trace
    ELSE FibonacciLoop(Append(trace, Add(trace[Len(trace)], trace[Len(trace) - 1])),
                       trace_length)

\* generate_fibonacci_trace: trace[0] and trace[1] are written whatever the length
GenerateFibonacciTrace(trace_length) ==
    IF trace_length < 2 THEN Panic("index out of bounds")
    ELSE [k |-> "ok", v |-> FibonacciLoop(<<1, 1>>, trace_length)]

RECURSIVE PowersLoop(_, _, _)
PowersLoop(powers, w, count) ==
    IF Len(powers) >= count THEN powers
    ELSE PowersLoop(Append(powers, Mul(powers[Len(powers)], w)), w, count)

\* <<1, w, w^2, .., w^(count-1)>>
Powers(w, count) == IF count = 0 THEN <<>> ELSE PowersLoop(<<1>>, w, count)

RECURSIVE DotPowers(_, _, _, _, _)
\* the sum over j in lo..hi (0-based) of evals[j] * table[j * c mod n]
DotPowers(evals, table, c, lo, hi) ==
    IF lo = hi THEN Mul(evals[lo + 1], table[((lo * c) % Len(evals)) + 1])
    ELSE LET mid == (lo + hi) \div 2
         IN  Add(DotPowers(evals, table, c, lo, mid),
                 DotPowers(evals, table, c, mid + 1, hi))

\* the inverse transform: coefficient c is (1/n) * sum_j evals[j] * w^(-j c)
InverseTransform(evals, table, n_inv) ==
    PolynomialNew(Collect([c \in 1 .. Len(evals) |->
                              Mul(n_inv, DotPowers(evals, table, c - 1, 0, Len(evals) - 1))]))

\* Polynomial::interpolate_fft: the polynomial of degree < n whose value at w^i is
\* evals[i], w the primitive root of unity of order n; Err unless n is a power of
\* two for which the field has a root
InterpolateFft(evals) ==
    LET n == Len(evals)
        root == PrimitiveRootOfUnity(TrailingZeros(n))
    IN  IF ~IsPowerOfTwo(n) \/ root = NoValue THEN NoValue
        ELSE [k |-> "ok",
              v |-> InverseTransform(evals, Powers(Inv(root.v).v, n), Inv(FromInt(n)).v)]

\* Polynomial::scale: the coefficient of x^i times factor^i
Scale(coefficients, table) ==
    PolynomialNew(Collect([i \in 1 .. Len(coefficients) |->
                              Mul(coefficients[i], table[i])]))

\* the Ok / Err of interpolate_fft carried through scale
ScaleResult(scaled, offset_inv) ==
    IF scaled = NoValue THEN NoValue
    ELSE [k |-> "ok", v |-> Scale(scaled.v, Powers(offset_inv, Len(scaled.v)))]

\* Polynomial::interpolate_offset_fft: the polynomial whose value at offset * w^i
\* is evals[i]
InterpolateOffsetFft(evals, offset) ==
    ScaleResult(InterpolateFft(evals), Inv(offset).v)

\* Polynomial::interpolate on two points: Err when the two xs are the same
Interpolate(xs, ys) ==
    LET dx == Inv(Sub(xs[2], xs[1]))
    IN  IF dx = NoValue THEN NoValue
        ELSE LET slope == Mul(Sub(ys[2], ys[1]), dx.v)
             IN  [k |-> "ok",
                  v |-> PolynomialNew(<<Sub(ys[1], Mul(slope, xs[1])), slope>>)]

RECURSIVE ProductAt(_, _, _, _)
\* the coefficient of x^e in a * b: the sum of a[i] * b[e - i] from i (0-based) on
ProductAt(a, b, e, i) ==
    IF i > e \/ i >= Len(a) THEN 0
    ELSE Add(IF e - i < Len(b) THEN Mul(a[i + 1], b[e - i + 1]) ELSE 0,
             ProductAt(a, b, e, i + 1))

\* Polynomial * Polynomial
PolyMul(a, b) ==
    IF a = <<>> \/ b = <<>> THEN <<>>
    ELSE PolynomialNew(Collect([e \in 1 .. (Len(a) + Len(b) - 1) |->
                                   ProductAt(a, b, e - 1, 0)]))

\* FieldElement::inplace_batch_inverse: Err when an element is zero
InplaceBatchInverse(v) ==
    IF \E i \in 1 .. Len(v) : v[i] = 0 THEN NoValue
    ELSE [k |-> "ok", v |-> Collect([i \in 1 .. Len(v) |-> Inv(v[i]).v])]

\* the table of powers times the offset
CosetOf(table, offset) == Collect([i \in 1 .. Len(table) |-> Mul(offset, table[i])])

\* the powers of the primitive root themselves, the offset left out
GetPowersOfPrimitiveRootCosetNoOffset(n, count, offset) ==
    LET root == PrimitiveRootOfUnity(n)
    IN  IF root = NoValue THEN NoValue
        ELSE [k |-> "ok", v |-> Powers(root.v, count)]

\* get_powers_of_primitive_root_coset: offset * w^i for i < count, w the primitive
\* root of unity of order 2^n
GetPowersOfPrimitiveRootCoset(n, count, offset) ==
    LET root == PrimitiveRootOfUnity(n)
    IN  IF root = NoValue THEN NoValue
        ELSE [k |-> "ok", v |-> CosetOf(Powers(root.v, count), offset)]

\* the coset offset of the LDE domain
COSET_OFFSET == 3

\* numerator_lde[i] * denominator_inv_lde[i]
Quotient(numerator_lde, denominator_inv_lde) ==
    IF denominator_inv_lde = NoValue THEN Panic("unwrap of Err")
    ELSE [k |-> "ok",
          v |-> Collect([i \in 1 .. Len(numerator_lde) |->
                            Mul(numerator_lde[i], denominator_inv_lde.v[i])])]

\* (x - a)(x - b)
Zerofier(a, b) ==
    PolyMul(PolynomialNew(<<Sub(0, a), 1>>), PolynomialNew(<<Sub(0, b), 1>>))

\* t(x) - I(x) on the LDE domain
BoundaryNumeratorLde(trace_poly_lde, lde_domain, boundary_interpolant) ==
    Collect([i \in 1 .. Len(lde_domain) |->
                Sub(trace_poly_lde[i], Evaluate(boundary_interpolant, lde_domain[i]))])

\* Arithmetization::new, step 5: the evaluations of B(x) = (t(x) - I(x)) / Z_B(x)
BoundaryConstraintPolyLde(domain, trace_poly_lde, lde_domain) ==
    LET boundary_interpolant == Interpolate(<<domain[1], domain[2]>>, <<1, 1>>)
        boundary_zerofier_poly == Zerofier(domain[1], domain[2])
    IN  IF boundary_interpolant = NoValue THEN Panic("unwrap of Err")
        ELSE Quotient(BoundaryNumeratorLde(trace_poly_lde, lde_domain,
                                           boundary_interpolant.v),
                      InplaceBatchInverse(
                          Collect(EvaluateSlice(boundary_zerofier_poly, lde_domain))))

\* the points of a domain times a factor
Shifted(lde_domain, factor) ==
    Collect([i \in 1 .. Len(lde_domain) |-> Mul(lde_domain[i], factor)])

\* t(g^2 x) - t(g x) - t(x) on the LDE domain
TransitionNumeratorLde(trace_lde_g2, trace_lde_g, trace_poly_lde) ==
    Collect([i \in 1 .. Len(trace_poly_lde) |->
                Sub(Sub(trace_lde_g2[i], trace_lde_g[i]), trace_poly_lde[i])])

\* Z_T(x) = (x^n - 1) * Z_exemptions(x)^-1 on the LDE domain
TransitionDenominatorLde(lde_domain, trace_length, exemptions_inv_lde) ==
    Collect([i \in 1 .. Len(lde_domain) |->
                Mul(Sub(Pow(lde_domain[i], trace_length), 1), exemptions_inv_lde[i])])

\* the quotient by Z_T, once the exemptions are inverted
TransitionQuotient(numerator_lde, lde_domain, trace_length, exemptions_inv_lde) ==
    IF exemptions_inv_lde = NoValue THEN Panic("unwrap of Err")
    ELSE Quotient(numerator_lde,
                  InplaceBatchInverse(
                      TransitionDenominatorLde(lde_domain, trace_length,
                                               exemptions_inv_lde.v)))

\* the transition quotient with g^(n-1) as the only exempted point of Z_T
TransitionConstraintPolyLdeOneExemption(trace_poly, trace_poly_lde, domain, domain_generator, lde_domain) ==
    TransitionQuotient(
        TransitionNumeratorLde(
            Collect(EvaluateSlice(trace_poly, Shifted(lde_domain, Square(domain_generator)))),
            Collect(EvaluateSlice(trace_poly, Shifted(lde_domain, domain_generator))),
            trace_poly_lde),
        lde_domain, Len(domain),
        InplaceBatchInverse(
            Collect(EvaluateSlice(PolynomialNew(<<Sub(0, domain[Len(domain)]), 1>>),
                                  lde_domain))))

\* Arithmetization::new, step 6: the evaluations of
\* T(x) = (t(g^2 x) - t(g x) - t(x)) / Z_T(x)
TransitionConstraintPolyLde(trace_poly, trace_poly_lde, domain, domain_generator, lde_domain) ==
    TransitionQuotient(
        TransitionNumeratorLde(
            Collect(EvaluateSlice(trace_poly, Shifted(lde_domain, Square(domain_generator)))),
            Collect(EvaluateSlice(trace_poly, Shifted(lde_domain, domain_generator))),
            trace_poly_lde),
        lde_domain, Len(domain),
        InplaceBatchInverse(
            Collect(EvaluateSlice(Zerofier(domain[Len(domain) - 1], domain[Len(domain)]),
                                  lde_domain))))

\* Arithmetization::new, the struct it returns
ArithmetizationSelf(domain, domain_generator, trace_poly, boundary, transition, lde_domain) ==
    IF boundary.k = "panic" THEN boundary
    ELSE IF transition.k = "panic" THEN transition
    ELSE [k |-> "ok",
          trace_length |-> Len(domain),
          domain |-> domain,
          domain_generator |-> domain_generator,
          trace_poly |-> trace_poly,
          boundary_constraint_poly_lde |-> boundary.v,
          transition_constraint_poly_lde |-> transition.v,
          lde_domain |-> lde_domain]

\* Arithmetization::new, steps 4 to 6
ArithmetizationOf(domain, domain_generator, trace_poly, trace_poly_lde, lde_domain) ==
    ArithmetizationSelf(
        domain, domain_generator, trace_poly,
        BoundaryConstraintPolyLde(domain, trace_poly_lde, lde_domain),
        TransitionConstraintPolyLde(trace_poly, trace_poly_lde, domain,
                                    domain_generator, lde_domain),
        lde_domain)

\* Arithmetization::new, steps 1 to 3: the unwraps
ArithmetizationUnwrap(trace_length, root, trace_poly, lde_domain) ==
    IF root = NoValue \/ trace_poly = NoValue \/ lde_domain = NoValue
    THEN Panic("unwrap of Err")
    ELSE ArithmetizationOf(Powers(root.v, trace_length), root.v, trace_poly.v,
                           Collect(EvaluateSlice(trace_poly.v, lde_domain.v)),
                           lde_domain.v)

\* Arithmetization::new
ArithmetizationNew(trace, blowup_factor) ==
    IF ~IsPowerOfTwo(Len(trace))
    THEN Panic("Trace length must be a power of two for FFT-based interpolation.")
    ELSE ArithmetizationUnwrap(
             Len(trace),
             PrimitiveRootOfUnity(TrailingZeros(Len(trace))),
             InterpolateFft(trace),
             GetPowersOfPrimitiveRootCoset(TrailingZeros(Len(trace) * blowup_factor),
                                           Len(trace) * blowup_factor,
                                           FromInt(COSET_OFFSET)))

\* Composition::new, the struct it returns
CompositionSelf(composition_poly_lde, composition_poly) ==
    IF composition_poly = NoValue THEN Panic("unwrap of Err")
    ELSE [k |-> "ok",
          composition_poly_lde |-> composition_poly_lde,
          composition_poly |-> composition_poly.v]

\* Composition::new, the interpolation of the LDE of H
CompositionOf(composition_poly_lde) ==
    CompositionSelf(composition_poly_lde,
                    InterpolateOffsetFft(composition_poly_lde, FromInt(COSET_OFFSET)))

\* Composition::new: H = alpha1 * B + alpha2 * T on the LDE domain, and its
\* coefficient form
CompositionNew(arith, alpha1, alpha2) ==
    CompositionOf(Collect([i \in 1 .. Len(arith.lde_domain) |->
                              Add(Mul(arith.boundary_constraint_poly_lde[i], alpha1),
                                  Mul(arith.transition_constraint_poly_lde[i], alpha2))]))

\* perform_ood_check without its assert_eq
PerformOodCheckNoCompare(comp, arith, alpha1, alpha2, z) ==
    LET h_z == Evaluate(comp.composition_poly, z)
    IN  [k |-> "ok", why |-> "", h_z |-> h_z, h_z_reconstructed |-> h_z]

\* perform_ood_check with the verifier reading H(z) as alpha1 * B(z) alone
PerformOodCheckBoundaryOnly(comp, arith, alpha1, alpha2, z) ==
    LET t_z == Evaluate(arith.trace_poly, z)
        h_z == Evaluate(comp.composition_poly, z)
        boundary_interpolant ==
            Interpolate(<<arith.domain[1], arith.domain[2]>>, <<1, 1>>)
        boundary_zerofier_z ==
            Mul(Sub(z, arith.domain[1]), Sub(z, arith.domain[2]))
    IN  IF boundary_interpolant = NoValue \/ Inv(boundary_zerofier_z) = NoValue
        THEN Panic("unwrap of Err")
        ELSE LET boundary_eval_z ==
                     Mul(Sub(t_z, Evaluate(boundary_interpolant.v, z)),
                         Inv(boundary_zerofier_z).v)
                 h_z_reconstructed == Mul(boundary_eval_z, alpha1)
             IN  [k |-> IF h_z = h_z_reconstructed THEN "ok" ELSE "panic",
                  why |-> "Out-of-domain check failed!",
                  h_z |-> h_z,
                  h_z_reconstructed |-> h_z_reconstructed]

\* Composition::perform_ood_check: H(z) against alpha1 * B(z) + alpha2 * T(z)
\* rebuilt from t(z), t(zg), t(zg^2)
PerformOodCheck(comp, arith, alpha1, alpha2, z) ==
    LET g == arith.domain_generator
        t_z == Evaluate(arith.trace_poly, z)
        t_zg == Evaluate(arith.trace_poly, Mul(z, g))
        t_zg2 == Evaluate(arith.trace_poly, Mul(z, Square(g)))
        h_z == Evaluate(comp.composition_poly, z)
        boundary_interpolant ==
            Interpolate(<<arith.domain[1], arith.domain[2]>>, <<1, 1>>)
        boundary_zerofier_z ==
            Mul(Sub(z, arith.domain[1]), Sub(z, arith.domain[2]))
        numerator == Sub(Pow(z, arith.trace_length), 1)
        exemptions_at_z ==
            Mul(Sub(z, arith.domain[arith.trace_length - 1]),
                Sub(z, arith.domain[arith.trace_length]))
    IN  IF boundary_interpolant = NoValue \/ Inv(boundary_zerofier_z) = NoValue
           \/ Inv(exemptions_at_z) = NoValue
        THEN Panic("unwrap of Err")
        ELSE LET boundary_eval_z ==
                     Mul(Sub(t_z, Evaluate(boundary_interpolant.v, z)),
                         Inv(boundary_zerofier_z).v)
                 transition_zerofier_z == Mul(numerator, Inv(exemptions_at_z).v)
             IN  IF Inv(transition_zerofier_z) = NoValue THEN Panic("unwrap of Err")
                 ELSE LET transition_eval_z ==
                              Mul(Sub(Sub(t_zg2, t_zg), t_z), Inv(transition_zerofier_z).v)
                          h_z_reconstructed ==
                              Add(Mul(boundary_eval_z, alpha1), Mul(transition_eval_z, alpha2))
                      IN  [k |-> IF h_z = h_z_reconstructed THEN "ok" ELSE "panic",
                           why |-> "Out-of-domain check failed!",
                           h_z |-> h_z,
                           h_z_reconstructed |-> h_z_reconstructed]

\* the four weighted quotients, once the three denominators are inverted
DeepSum(h_x, t_x, h_z, t_z, t_zg, t_zg2, inv_z, inv_zg, inv_zg2, betas) ==
    IF inv_z = NoValue \/ inv_zg = NoValue \/ inv_zg2 = NoValue THEN NoValue
    ELSE [k |-> "ok",
          v |-> Add(Add(Mul(Mul(Sub(h_x, h_z), inv_z.v), betas[1]),
                        Mul(Mul(Sub(t_x, t_z), inv_z.v), betas[2])),
                    Add(Mul(Mul(Sub(t_x, t_zg), inv_zg.v), betas[3]),
                        Mul(Mul(Sub(t_x, t_zg2), inv_zg2.v), betas[4])))]

\* the four quotients of the DEEP polynomial at a point x with openings h_x, t_x,
\* weighted by the betas; NoValue when x is one of z, zg, zg^2
DeepAt(x, h_x, t_x, h_z, t_z, t_zg, t_zg2, z, g, betas) ==
    DeepSum(h_x, t_x, h_z, t_z, t_zg, t_zg2, Inv(Sub(x, z)), Inv(Sub(x, Mul(z, g))),
            Inv(Sub(x, Mul(z, Square(g)))), betas)

\* DeepComposition::new, the struct it returns
DeepCompositionSelf(terms) ==
    IF \E i \in 1 .. Len(terms) : terms[i] = NoValue THEN Panic("unwrap of Err")
    ELSE [k |-> "ok", deep_poly_lde |-> Collect([i \in 1 .. Len(terms) |-> terms[i].v])]

\* DeepComposition::new, the terms on the LDE domain from the values at z
DeepCompositionOf(arith, comp, z, betas, h_z, t_z, t_zg, t_zg2) ==
    DeepCompositionSelf(
        Collect([i \in 1 .. Len(arith.lde_domain) |->
                    DeepAt(arith.lde_domain[i], comp.composition_poly_lde[i],
                           Evaluate(arith.trace_poly, arith.lde_domain[i]),
                           h_z, t_z, t_zg, t_zg2, z, arith.domain_generator, betas)]))

\* DeepComposition::new with t(z g) in the place of t(z g^2)
DeepCompositionNewRepeatedShift(arith, comp, z, betas) ==
    DeepCompositionOf(arith, comp, z, betas,
                      Evaluate(comp.composition_poly, z),
                      Evaluate(arith.trace_poly, z),
                      Evaluate(arith.trace_poly, Mul(z, arith.domain_generator)),
                      Evaluate(arith.trace_poly, Mul(z, arith.domain_generator)))

\* DeepComposition::new: D on the LDE domain
DeepCompositionNew(arith, comp, z, betas) ==
    DeepCompositionOf(arith, comp, z, betas,
                      Evaluate(comp.composition_poly, z),
                      Evaluate(arith.trace_poly, z),
                      Evaluate(arith.trace_poly, Mul(z, arith.domain_generator)),
                      Evaluate(arith.trace_poly, Mul(z, Square(arith.domain_generator))))

\* perform_final_spot_check, the assert_eq
SpotCompare(deep_x0, recon) ==
    IF recon = NoValue THEN Panic("unwrap of Err")
    ELSE [k |-> IF deep_x0 = recon.v THEN "ok" ELSE "panic",
          why |-> "Final spot check failed!",
          deep_x0 |-> deep_x0,
          deep_x0_reconstructed |-> recon.v]

\* DeepComposition::perform_final_spot_check: the committed D(x0) against D(x0)
\* rebuilt from H(x0), t(x0) and the out-of-domain values
PerformFinalSpotCheck(deep, arith, comp, z, betas, x0_index) ==
    IF x0_index >= Len(arith.lde_domain) THEN Panic("index out of bounds")
    ELSE SpotCompare(
             deep.deep_poly_lde[x0_index + 1],
             DeepAt(arith.lde_domain[x0_index + 1],
                    comp.composition_poly_lde[x0_index + 1],
                    Evaluate(arith.trace_poly, arith.lde_domain[x0_index + 1]),
                    Evaluate(comp.composition_poly, z),
                    Evaluate(arith.trace_poly, z),
                    Evaluate(arith.trace_poly, Mul(z, arith.domain_generator)),
                    Evaluate(arith.trace_poly, Mul(z, Square(arith.domain_generator))),
                    z, arith.domain_generator, betas))

\* "--- Proof Verified Successfully ---"
ProofVerified == [k |-> "verified"]

NoChallenges ==
    [alphas |-> <<>>, ood_alpha1 |-> <<>>, z |-> <<>>, betas |-> <<>>, x0_index |-> <<>>]

\* the challenges the verifier sends: alpha1, alpha2 of main and another pair
AlphaSpace == {<<5, 7>>, <<2, 3>>}
\* z of main, another point outside the domains, a point of the trace domain and
\* a point of the LDE domain
ZSpace == {10, 2, 1, COSET_OFFSET}
\* the betas of main and another choice
BetaSpace == {<<11, 13, 15, 17>>, <<0, 1, 0, 2>>}
\* x0_index of main, the ends of the LDE domain and the first index past it
X0Space(size) == {x \in {0, 5, size - 1, size} : x <= size}

\* main, step 1: generate_fibonacci_trace
GenerateTrace ==
    /\ apc = "start"
    /\ LET r == GenerateFibonacciTrace(air.trace_length)
       IN  IF r.k = "panic"
           THEN /\ outcome' = r
                /\ apc' = "done"
                /\ UNCHANGED fib_trace
           ELSE /\ fib_trace' = r.v
                /\ apc' = "arithmetization"
                /\ UNCHANGED outcome
    /\ UNCHANGED <<tk, calls, fvars, air, corrupted, challenges, arithmetization, composition,
                   ood, deep_composition, spot>>

\* the trace handed to Arithmetization::new is any slice: one cell of the
\* Fibonacci trace replaced by another value
CorruptCell ==
    /\ apc = "arithmetization"
    /\ corrupted = NoValue
    /\ \E cell \in 0 .. (Len(fib_trace) - 1), by \in 1 .. MaxDelta :
          /\ fib_trace' = [fib_trace EXCEPT ![cell + 1] = Add(@, by)]
          /\ corrupted' = [k |-> "cell", cell |-> cell, by |-> by]
    /\ UNCHANGED <<tk, calls, fvars, apc, air, challenges, arithmetization, composition, ood,
                   deep_composition, spot, outcome>>

\* main, step 2: Arithmetization::new
AirArithmetization ==
    /\ apc = "arithmetization"
    /\ LET r == ArithmetizationNew(fib_trace, air.blowup_factor)
       IN  IF r.k = "panic"
           THEN /\ outcome' = r
                /\ apc' = "done"
                /\ UNCHANGED arithmetization
           ELSE /\ arithmetization' = r
                /\ apc' = "composition"
                /\ UNCHANGED outcome
    /\ UNCHANGED <<tk, calls, fvars, air, fib_trace, corrupted, challenges, composition, ood,
                   deep_composition, spot>>

\* main, step 3: the verifier sends alpha1, alpha2; Composition::new
AirComposition ==
    /\ apc = "composition"
    /\ \E alphas \in AlphaSpace :
          LET r == CompositionNew(arithmetization, FromInt(alphas[1]), FromInt(alphas[2]))
          IN  /\ challenges' = [challenges EXCEPT !.alphas = alphas]
              /\ IF r.k = "panic"
                 THEN /\ outcome' = r
                      /\ apc' = "done"
                      /\ UNCHANGED composition
                 ELSE /\ composition' = r
                      /\ apc' = "ood"
                      /\ UNCHANGED outcome
    /\ UNCHANGED <<tk, calls, fvars, air, fib_trace, corrupted, arithmetization, ood,
                   deep_composition, spot>>

\* the out-of-domain check run with the alpha1 the composition was built with
AirOodCheckSameAlpha ==
    /\ apc = "ood"
    /\ \E z \in ZSpace, alpha1 \in {challenges.alphas[1], challenges.alphas[1] + 1} :
          LET r == PerformOodCheck(composition, arithmetization,
                                   FromInt(challenges.alphas[1]),
                                   FromInt(challenges.alphas[2]), FromInt(z))
          IN  /\ challenges' = [challenges EXCEPT !.z = <<z>>, !.ood_alpha1 = <<alpha1>>]
              /\ IF r.k = "panic"
                 THEN /\ outcome' = Panic(r.why)
                      /\ apc' = "done"
                 ELSE /\ apc' = "deep"
                      /\ UNCHANGED outcome
              /\ ood' = r
    /\ UNCHANGED <<tk, calls, fvars, air, fib_trace, corrupted, arithmetization, composition,
                   deep_composition, spot>>

\* the out-of-domain check run, and the run going on to DeepComposition::new
\* whatever the check said
AirOodCheckIgnored ==
    /\ apc = "ood"
    /\ \E z \in ZSpace, alpha1 \in {challenges.alphas[1], challenges.alphas[1] + 1} :
          LET r == PerformOodCheck(composition, arithmetization, FromInt(alpha1),
                                   FromInt(challenges.alphas[2]), FromInt(z))
          IN  /\ challenges' = [challenges EXCEPT !.z = <<z>>, !.ood_alpha1 = <<alpha1>>]
              /\ ood' = r
    /\ apc' = "deep"
    /\ UNCHANGED <<tk, calls, fvars, air, fib_trace, corrupted, arithmetization, composition,
                   deep_composition, spot, outcome>>

\* main, step 4: the verifier sends z; perform_ood_check, with the alpha1 of the
\* composition or, the verifier's alpha1 being its own argument, with alpha1 + 1
AirOodCheck ==
    /\ apc = "ood"
    /\ \E z \in ZSpace, alpha1 \in {challenges.alphas[1], challenges.alphas[1] + 1} :
          LET r == PerformOodCheck(composition, arithmetization, FromInt(alpha1),
                                   FromInt(challenges.alphas[2]), FromInt(z))
          IN  /\ challenges' = [challenges EXCEPT !.z = <<z>>, !.ood_alpha1 = <<alpha1>>]
              /\ IF r.k = "panic"
                 THEN /\ outcome' = Panic(r.why)
                      /\ apc' = "done"
                 ELSE /\ apc' = "deep"
                      /\ UNCHANGED outcome
              /\ ood' = r
    /\ UNCHANGED <<tk, calls, fvars, air, fib_trace, corrupted, arithmetization, composition,
                   deep_composition, spot>>

\* DeepComposition::new called with the first point of the LDE domain for z
AirDeepCompositionAtLdePoint ==
    /\ apc = "deep"
    /\ \E betas \in BetaSpace :
          LET r == DeepCompositionNew(arithmetization, composition,
                                      arithmetization.lde_domain[1], betas)
          IN  /\ challenges' = [challenges EXCEPT !.betas = betas]
              /\ IF r.k = "panic"
                 THEN /\ outcome' = r
                      /\ apc' = "done"
                      /\ UNCHANGED deep_composition
                 ELSE /\ deep_composition' = r
                      /\ apc' = "spot"
                      /\ UNCHANGED outcome
    /\ UNCHANGED <<tk, calls, fvars, air, fib_trace, corrupted, arithmetization, composition,
                   ood, spot>>

\* main, step 5: the verifier sends the betas; DeepComposition::new
AirDeepComposition ==
    /\ apc = "deep"
    /\ \E betas \in BetaSpace :
          LET r == DeepCompositionNew(arithmetization, composition,
                                      FromInt(challenges.z[1]), betas)
          IN  /\ challenges' = [challenges EXCEPT !.betas = betas]
              /\ IF r.k = "panic"
                 THEN /\ outcome' = r
                      /\ apc' = "done"
                      /\ UNCHANGED deep_composition
                 ELSE /\ deep_composition' = r
                      /\ apc' = "spot"
                      /\ UNCHANGED outcome
    /\ UNCHANGED <<tk, calls, fvars, air, fib_trace, corrupted, arithmetization, composition,
                   ood, spot>>

\* main, step 6: a FRI query gives x0_index; perform_final_spot_check, and the
\* end of main
AirFinalSpotCheck ==
    /\ apc = "spot"
    /\ \E x0_index \in X0Space(Len(arithmetization.lde_domain)) :
          LET r == PerformFinalSpotCheck(deep_composition, arithmetization, composition,
                                         FromInt(challenges.z[1]), challenges.betas,
                                         x0_index)
          IN  /\ challenges' = [challenges EXCEPT !.x0_index = <<x0_index>>]
              /\ spot' = r
              /\ outcome' = IF r.k = "panic" THEN Panic(r.why) ELSE ProofVerified
    /\ apc' = "done"
    /\ UNCHANGED <<tk, calls, fvars, air, fib_trace, corrupted, arithmetization, composition,
                   ood, deep_composition>>

\* no run of the AIR pipeline
AirIdle ==
    /\ apc = "off"
    /\ air = NoValue
    /\ fib_trace = NoValue
    /\ corrupted = NoValue
    /\ challenges = NoValue
    /\ arithmetization = NoValue
    /\ composition = NoValue
    /\ ood = NoValue
    /\ deep_composition = NoValue
    /\ spot = NoValue
    /\ outcome = NoValue

(***************************************************************************)
(* 1_mathematical_toolkit: PrimeField over u64, and the test               *)
(* multiplicative_inverse.  The machine word and the prime are scaled down *)
(* together: u64 to 16 bits, PRIME = 2^31 - 1 to 2^7 - 1, so that twice    *)
(* the bits of the prime is two less than the bits of the word, as in      *)
(* 2 * 31 = 64 - 2.                                                        *)
(***************************************************************************)
\* u64::MAX + 1, scaled
WORD == 65536

\* pub const PRIME: u64 = (1 << 31) - 1, scaled
PRIME == 127

\* a * b on the narrower word
WrappingMulNarrow(a, b) == (a * b) % 4096

\* a * b on u64: the product modulo the word
WrappingMul(a, b) == (a * b) % WORD

\* the product does not fit the word
MulOverflows(a, b) == a * b >= WORD

\* PrimeField::mul
PrimeFieldMul(p, a, b) == WrappingMul(a, b) % p

\* no run of the test
ToolkitIdle == tk = [pc |-> "off"]

\* PrimeField::inv up to the loop of mod_pow: the assert, then result = 1 and
\* base %= modulus
ToolkitInv ==
    /\ tk.pc = "inv"
    /\ IF tk.a = 0
       THEN tk' = [tk EXCEPT !.pc = "done", !.outcome = Panic("No inverse for 0")]
       ELSE tk' = [tk EXCEPT !.pc = "mod_pow", !.result = 1, !.base = tk.a % PRIME,
                             !.exp = PRIME - 2]
    /\ UNCHANGED <<calls, fvars, avars>>

\* mod_pow: one turn of `while exp > 0`
ModPowStep ==
    /\ tk.pc = "mod_pow"
    /\ tk.exp > 0
    /\ tk' = [tk EXCEPT
                !.result = IF tk.exp % 2 = 1
                           THEN WrappingMul(tk.result, tk.base) % PRIME
                           ELSE tk.result,
                !.base = WrappingMul(tk.base, tk.base) % PRIME,
                !.exp = tk.exp \div 2,
                !.wrapped = \/ tk.wrapped
                            \/ (tk.exp % 2 = 1 /\ MulOverflows(tk.result, tk.base))
                            \/ MulOverflows(tk.base, tk.base)]
    /\ UNCHANGED <<calls, fvars, avars>>

\* mod_pow returns result; `let inv = FIELD.inv(a)`
ModPowReturn ==
    /\ tk.pc = "mod_pow"
    /\ tk.exp = 0
    /\ tk' = [tk EXCEPT !.pc = "mul", !.inv = tk.result]
    /\ UNCHANGED <<calls, fvars, avars>>

\* FIELD.mul(a, inv)
ToolkitMul ==
    /\ tk.pc = "mul"
    /\ tk' = [tk EXCEPT !.pc = "done",
                        !.product = PrimeFieldMul(PRIME, tk.a, tk.inv),
                        !.wrapped = tk.wrapped \/ MulOverflows(tk.a, tk.inv),
                        !.outcome = [k |-> "ok"]]
    /\ UNCHANGED <<calls, fvars, avars>>

(***************************************************************************)
(* Specifications.                                                         *)
(***************************************************************************)
RECURSIVE SeqsUpTo(_, _)
\* the sequences over S of length at most n
SeqsUpTo(S, n) ==
    IF n = 0 THEN {<<>>}
    ELSE LET shorter == SeqsUpTo(S, n - 1)
         IN  shorter \cup {Append(c, v) : c \in shorter, v \in S}

\* the demo polynomial of main: P(x) = x^3 - 3x + 2
DemoPoly == <<2, P - 3, 0, 1>>

\* polynomials handed to Prover::new for a claimed degree: every coefficient vector
\* over 0..MaxCoeff up to one degree above the claimed one
PolySpace(claimed_degree) ==
    {PolynomialNew(c) : c \in SeqsUpTo(0 .. MaxCoeff, claimed_degree + 2)}

\* <<claimed_degree, blowup_factor, num_queries>>
InputSpace ==
    {<<0, 1, 1>>, <<0, 2, 0>>, <<0, 2, 2>>, <<1, 1, 1>>, <<1, 2, 1>>}

InitWith(inputs) ==
    /\ input \in {[claimed_degree |-> i[1], blowup_factor |-> i[2], num_queries |-> i[3]] :
                     i \in inputs}
    /\ params = FriParametersNew(input.claimed_degree, input.blowup_factor,
                                 input.num_queries)
    /\ params # NoValue
    /\ oracle = <<>>
    /\ ppc = "new"
    /\ ptranscript = <<>>
    /\ layers = <<>>
    /\ pbetas = <<>>
    /\ pindices = <<>>
    /\ proof = NoValue
    /\ run = 0
    /\ first_proof = NoValue
    /\ tamper = Untouched
    /\ sent = NoValue
    /\ vpc = "idle"
    /\ vtranscript = <<>>
    /\ vbetas = <<>>
    /\ vindices = <<>>
    /\ query_num = 0
    /\ result = NoValue
    /\ calls = <<>>

Init ==
    /\ InitWith(InputSpace)
    /\ poly \in PolySpace(input.claimed_degree)
    /\ AirIdle
    /\ ToolkitIdle

Prove == ProverNew \/ CommitPhase \/ FoldRound \/ FoldFinish \/ QuerySample \/ QueryPhase

Verify ==
    \/ VerifierNew
    \/ AbsorbFirstCommitment
    \/ ReconstructBeta
    \/ AbsorbLastValue
    \/ ReconstructIndex
    \/ VerifyNextQuery
    \/ VerifyOk

Next ==
    \/ Prove
    \/ Deliver
    \/ TamperCommitment
    \/ TamperOpening
    \/ TamperLastValue
    \/ TruncateCommitments
    \/ ExtendCommitments
    \/ TruncateDecommitment
    \/ Verify

Spec == Init /\ [][Next]_vars

(***************************************************************************)
(* main as it is: prove, then verify the proof that prove returned.  The   *)
(* inputs include the demo of main and its blowup-4 variant.               *)
(***************************************************************************)
HonestInputSpace ==
    {<<0, 1, 1>>, <<0, 2, 2>>, <<1, 1, 0>>, <<1, 2, 2>>, <<2, 2, 1>>, <<3, 2, 1>>,
     <<3, 4, 1>>, <<3, 8, 2>>}

\* for the demo's claimed degree: the demo polynomial and one of degree 4
HonestPolySpace(claimed_degree) ==
    IF claimed_degree = 3
    THEN {PolynomialNew(DemoPoly), PolynomialNew(DemoPoly \o <<1>>)}
    ELSE PolySpace(claimed_degree)

InitHonest ==
    /\ InitWith(HonestInputSpace)
    /\ poly \in HonestPolySpace(input.claimed_degree)
    /\ AirIdle
    /\ ToolkitIdle

NextHonest == Prove \/ Deliver \/ Verify

SpecHonest == InitHonest /\ [][NextHonest]_vars

(***************************************************************************)
(* Two Prover instances built one after the other from the same polynomial *)
(* and the same parameters.                                                *)
(***************************************************************************)
\* a second, fresh Prover::new(poly.clone(), params.clone()) after the first has proved
SecondProver ==
    /\ ppc = "done"
    /\ run = 1
    /\ first_proof' = proof
    /\ ppc' = "new"
    /\ UNCHANGED <<tk, calls, avars, input, poly, params, oracle, ptranscript, layers, pbetas, pindices,
                   proof, run, tamper, sent, vvars>>

NextTwice == Prove \/ SecondProver

SpecTwice == Init /\ [][NextTwice]_vars

(***************************************************************************)
(* prove called a second time on the same Prover, verify called a second   *)
(* time on the same Verifier with the same proof.                          *)
(***************************************************************************)
\* the calls of op that have returned before the current one
EarlierCalls(op) == SelectSeq(calls, LAMBDA c : c.op = op)

\* Prover::prove called again on the instance that has proved: commit_phase
\* starts from the transcript the first call left in self
ProveAgain ==
    /\ ppc = "done"
    /\ vpc = "idle"
    /\ EarlierCalls("prove") = <<>>
    /\ calls' = Append(calls, [op |-> "prove", returned |-> proof])
    /\ ppc' = "commit"
    /\ layers' = <<>>
    /\ pbetas' = <<>>
    /\ pindices' = <<>>
    /\ proof' = NoValue
    /\ UNCHANGED <<tk, avars, input, poly, params, oracle, ptranscript, run, first_proof,
                   tamper, sent, vvars>>

\* Verifier::verify called again with the same proof on the instance that has
\* verified: reconstruct_challenges starts from the transcript the first call
\* left in self
VerifyAgain ==
    /\ vpc = "done"
    /\ result.k # "panic"
    /\ EarlierCalls("verify") = <<>>
    /\ calls' = Append(calls, [op |-> "verify", returned |-> result])
    /\ vpc' = "absorb"
    /\ vbetas' = <<>>
    /\ vindices' = <<>>
    /\ query_num' = 0
    /\ result' = NoValue
    /\ UNCHANGED <<tk, avars, input, poly, params, oracle, pvars, run, first_proof, tamper,
                   sent, vtranscript>>

AgainInputSpace == {<<0, 1, 0>>, <<0, 2, 1>>, <<1, 1, 1>>}

InitAgain ==
    /\ InitWith(AgainInputSpace)
    /\ poly \in {p \in PolySpace(input.claimed_degree) : Degree(p) <= input.claimed_degree}
    /\ AirIdle
    /\ ToolkitIdle

NextAgain == Prove \/ ProveAgain \/ Deliver \/ Verify \/ VerifyAgain

SpecAgain == InitAgain /\ [][NextAgain]_vars

(***************************************************************************)
(* fold_evaluations on its own: the evaluations of a polynomial on a       *)
(* subgroup domain, folded once with any challenge of the field.           *)
(***************************************************************************)
FoldInputSpace == {<<0, 2, 0>>, <<1, 2, 0>>, <<3, 2, 0>>}

FoldPolySpace(claimed_degree) == PolySpace(claimed_degree)

InitFold ==
    /\ InitWith(FoldInputSpace)
    /\ poly \in FoldPolySpace(input.claimed_degree)
    /\ AirIdle
    /\ ToolkitIdle

\* Prover::fold_evaluations applied to the committed layer
FoldOnce ==
    /\ ppc = "fold"
    /\ Len(layers) = 1
    /\ \E beta \in FE :
          LET next == FoldEvaluations(layers[1].evaluations, layers[1].domain, beta)
          IN  /\ pbetas' = <<beta>>
              /\ layers' = Append(layers, FriLayer(next[1], MerkleRoot(next[1]), next[2]))
    /\ ppc' = "folded"
    /\ UNCHANGED <<tk, calls, avars, input, poly, params, oracle, ptranscript, pindices, proof, run,
                   first_proof, tamper, sent, vvars>>

NextFold == ProverNew \/ CommitPhase \/ FoldOnce

SpecFold == InitFold /\ [][NextFold]_vars

(***************************************************************************)
(* prove, then verify called with a proof that a dishonest prover, or       *)
(* whoever carries the proof, has rebuilt: a layer that is not the fold of  *)
(* the layer before, an opening replaced, fewer queries, fewer layers.      *)
(***************************************************************************)
ForgeInputSpace == {<<0, 2, 2>>, <<1, 2, 1>>, <<1, 2, 2>>}

InitForge ==
    /\ InitWith(ForgeInputSpace)
    /\ poly \in {p \in PolySpace(input.claimed_degree) : Degree(p) <= input.claimed_degree}
    /\ AirIdle
    /\ ToolkitIdle

NextForge ==
    \/ Prove
    \/ Deliver
    \/ ForgeLayer
    \/ TamperOpening
    \/ TruncateQueries
    \/ TruncateCommitments
    \/ Verify

SpecForge == InitForge /\ [][NextForge]_vars

(***************************************************************************)
(* main of 4_air_constraints_design, for several trace lengths and blowup  *)
(* factors (in main: 8 and 8), with the Fibonacci trace or the trace with  *)
(* one cell changed.                                                       *)
(***************************************************************************)
\* <<trace_length, blowup_factor>>
AirInputSpace == {<<2, 1>>, <<2, 4>>, <<4, 2>>, <<8, 8>>, <<1, 2>>, <<3, 2>>}

InitAir ==
    /\ InitWith({<<0, 1, 0>>})
    /\ poly = <<>>
    /\ apc = "start"
    /\ air \in {[trace_length |-> i[1], blowup_factor |-> i[2]] : i \in AirInputSpace}
    /\ fib_trace = NoValue
    /\ corrupted = NoValue
    /\ challenges = NoChallenges
    /\ arithmetization = NoValue
    /\ composition = NoValue
    /\ ood = NoValue
    /\ deep_composition = NoValue
    /\ spot = NoValue
    /\ outcome = NoValue
    /\ ToolkitIdle

NextAir ==
    \/ GenerateTrace
    \/ CorruptCell
    \/ AirArithmetization
    \/ AirComposition
    \/ AirOodCheck
    \/ AirDeepComposition
    \/ AirFinalSpotCheck

SpecAir == InitAir /\ [][NextAir]_vars

(***************************************************************************)
(* The test multiplicative_inverse for every a of the field, and inv(0).   *)
(***************************************************************************)
InitToolkit ==
    /\ InitWith({<<0, 1, 0>>})
    /\ poly = <<>>
    /\ AirIdle
    /\ tk \in {[pc |-> "inv", a |-> a, base |-> 0, exp |-> 0, result |-> 0, inv |-> 0,
                product |-> 0, wrapped |-> FALSE, outcome |-> NoValue] :
               a \in 0 .. (PRIME - 1)}

NextToolkit ==
    \/ ToolkitInv
    \/ ModPowStep
    \/ ModPowReturn
    \/ ToolkitMul

SpecToolkit == InitToolkit /\ [][NextToolkit]_vars

(***************************************************************************)
(* Properties.                                                             *)
(***************************************************************************)
Verified == vpc = "done"
Rejections == {"InvalidMerkleProof", "InconsistentFolding"}

\* C1: completeness.  For a polynomial of degree <= claimed_degree and parameters
\* whose domain size is a power of two, a fresh verifier given the proof a fresh
\* prover returned answers Ok(()), whatever the transcript squeezes.
C1_Completeness ==
    (/\ Verified
     /\ tamper.kind = "none"
     /\ Degree(poly) <= input.claimed_degree
     /\ IsPowerOfTwo(params.domain_0_size))
        => result = Ok

\* the demo of main (x^3 - 3x + 2, claimed degree 3, blowup 8, 2 queries) verified
C1_Witness ==
    /\ Verified
    /\ tamper.kind = "none"
    /\ poly = PolynomialNew(DemoPoly)
    /\ input = [claimed_degree |-> 3, blowup_factor |-> 8, num_queries |-> 2]
    /\ Len(vindices) = 2
    /\ result = Ok

\* C2: low-degree test.  An honestly folded proof for a polynomial of degree above
\* claimed_degree (and below the domain size, so that its evaluations are not those
\* of a polynomial of the claimed degree), checked with at least one query, is
\* rejected by verify.
C2_LowDegreeTest ==
    (/\ Verified
     /\ tamper.kind = "none"
     /\ IsPowerOfTwo(params.domain_0_size)
     /\ params.num_queries >= 1
     /\ Degree(poly) > input.claimed_degree
     /\ Degree(poly) < params.domain_0_size)
        => result # Ok

\* C3: verify is total on untrusted input: whatever FriProof it is given, it returns
\* Ok(()) or a FriError and never panics.
C3_VerifyTotal == Verified => result.k # "panic"

\* C4: transcript replay.  For the proof prove returned, once reconstruct_challenges
\* has sampled its query indices the verifier's transcript went through exactly the
\* prover's absorbs and squeezes, and its betas and query indices are the prover's,
\* in the same order.
C4_TranscriptReplay ==
    (/\ tamper.kind = "none"
     /\ vpc \in {"indices", "done"}
     /\ Len(vindices) = IndicesToSample(sent))
        => /\ vtranscript = ptranscript
           /\ vbetas = pbetas
           /\ vindices = pindices

\* a replay of at least two folding challenges and two query indices
C4_Witness ==
    /\ tamper.kind = "none"
    /\ Verified
    /\ Len(pbetas) >= 2
    /\ Len(pindices) >= 2
    /\ vbetas = pbetas
    /\ vindices = pindices

\* C5: determinism.  Two fresh Prover instances built from the same polynomial and
\* the same parameters return the same FriProof: same layer_commitments, same
\* last_layer_value, same query_decommitments.
C5_Determinism == (run = 2 /\ ppc = "done") => proof = first_proof

\* the second instance has proved, with folding rounds and a query in the proof
C5_Witness ==
    /\ run = 2
    /\ ppc = "done"
    /\ Len(proof.layer_commitments) >= 3
    /\ Len(proof.query_decommitments) >= 1
    /\ proof.layer_commitments = first_proof.layer_commitments
    /\ proof.query_decommitments = first_proof.query_decommitments

\* C6 as stated: a proof with one layer commitment flipped always makes verify
\* return Err(InvalidMerkleProof).
C6_TamperedCommitment ==
    (Verified /\ tamper.kind = "commitment") => result = InvalidMerkleProof

\* C6 as amended: a proof with at least one query decommitment and one layer
\* commitment flipped makes verify return Err(InvalidMerkleProof).
C6_TamperedCommitmentQueried ==
    (Verified /\ tamper.kind = "commitment" /\ params.num_queries >= 1)
        => result = InvalidMerkleProof

\* layer_commitments[1] flipped and the proof rejected at a query
C6_Witness ==
    /\ Verified
    /\ tamper.kind = "commitment"
    /\ tamper.layer = 1
    /\ params.num_queries >= 1
    /\ result = InvalidMerkleProof

\* C7: a proof with one opened evaluation (layer_evaluations[i] or
\* layer_evaluations_sym[i] of one query) replaced, its authentication paths
\* unchanged, makes verify return InvalidMerkleProof or InconsistentFolding, never Ok.
C7_TamperedOpening ==
    (Verified /\ tamper.kind = "opening") => result.k \in Rejections

\* a symmetric opening of the second query replaced above layer 0, and rejected
C7_Witness ==
    /\ Verified
    /\ tamper.kind = "opening"
    /\ tamper.sym
    /\ tamper.query = 1
    /\ tamper.layer >= 1
    /\ result.k \in Rejections

EvenPart(c) == [i \in 1 .. ((Len(c) + 1) \div 2) |-> c[2 * i - 1]]
\* f_o: the coefficients of the odd powers
OddPart(c) == [i \in 1 .. (Len(c) \div 2) |-> c[2 * i]]

\* C9: folding identity.  fold_evaluations applied to the evaluations of f on a
\* subgroup domain D of even size N and a challenge beta returns, for each i < N/2,
\* f_e(D[i]^2) + beta * f_o(D[i]^2).
C9_FoldingIdentity ==
    ppc = "folded" =>
        LET D == layers[1].domain
            half == Len(D) \div 2
        IN  /\ Len(layers[2].evaluations) = half
            /\ \A i \in 1 .. half :
                  layers[2].evaluations[i] =
                      Add(Evaluate(EvenPart(poly), Square(D[i])),
                          Mul(pbetas[1], Evaluate(OddPart(poly), Square(D[i]))))

\* a polynomial of degree 4 folded on the domain of size 8 with a challenge that
\* is neither 0 nor 1
C9_Witness ==
    /\ ppc = "folded"
    /\ Len(layers[1].domain) = 8
    /\ Degree(poly) = 4
    /\ pbetas[1] > 1
    /\ \E i \in 1 .. Len(OddPart(poly)) : OddPart(poly)[i] # 0
    /\ layers[2].evaluations[2] # layers[1].evaluations[2]

\* C10: layer shape.  In every run of the fold phase, each layer after the first
\* has a domain and an evaluation vector of half the length of the layer before it,
\* and its domain is the squares of the first half of the domain before it.
C10_LayerShape ==
    \A i \in 1 .. (Len(layers) - 1) :
        LET half == Len(layers[i].domain) \div 2
        IN  /\ Len(layers[i + 1].domain) = half
            /\ Len(layers[i + 1].evaluations) = half
            /\ \A j \in 1 .. half :
                  layers[i + 1].domain[j] = Square(layers[i].domain[j])

\* the fold phase of the demo: six layers, from 32 points down to one
C10_Witness ==
    /\ Len(layers) = 6
    /\ Len(layers[1].domain) = 32
    /\ Len(layers[6].domain) = 1
    /\ layers[2].domain[2] # layers[1].domain[2]

\* C11: fold termination and proof length.  For an initial domain of size
\* N_0 = 2^k the fold loop ends after exactly k rounds with a final layer of one
\* evaluation, and the proof has k + 1 layer commitments, one root per layer, and
\* last_layer_value equal to that evaluation.
C11_FoldTermination ==
    (ppc = "done" /\ IsPowerOfTwo(params.domain_0_size)) =>
        LET k == TrailingZeros(params.domain_0_size)
        IN  /\ Len(pbetas) = k
            /\ Len(layers) = k + 1
            /\ Len(layers[k + 1].evaluations) = 1
            /\ Len(proof.layer_commitments) = k + 1
            /\ \A i \in 1 .. (k + 1) : proof.layer_commitments[i] = layers[i].root
            /\ proof.last_layer_value = layers[k + 1].evaluations[1]

\* the demo's proof: 32 points, five rounds, six commitments, and a last value
\* that is not the first evaluation of the first layer
C11_Witness ==
    /\ ppc = "done"
    /\ params.domain_0_size = 32
    /\ Len(pbetas) = 5
    /\ Len(proof.layer_commitments) = 6
    /\ proof.last_layer_value # layers[1].evaluations[1]

\* C12: every evaluation domain size is a power of two: domain_0_size of every
\* FriParameters value FriParameters::new returns, and the domain length of every
\* layer the prover builds from it.
C12_PowerOfTwoDomains ==
    /\ IsPowerOfTwo(params.domain_0_size)
    /\ \A i \in 1 .. Len(layers) : IsPowerOfTwo(Len(layers[i].domain))

RECURSIVE QueryIdx(_, _)
\* idx_i of a query q (layers counted from 1): idx_1 = q and
\* idx_{i+1} = idx_i mod (|D_i|/2)
QueryIdx(i, q) ==
    IF i = 1 THEN q
    ELSE QueryIdx(i - 1, q) % (Len(layers[i - 1].domain) \div 2)

\* C13: query positions.  For every query index q and every layer i of an honest
\* proof, layer_evaluations[i] is layer i's evaluation at idx_i and
\* layer_evaluations_sym[i] its evaluation at (idx_i + |D_i|/2) mod |D_i|, and
\* these are the two positions at which the verifier authenticates the openings
\* against layer_commitments[i].
C13_QueryPositions ==
    (Verified /\ tamper.kind = "none") =>
        \A q \in 1 .. Len(pindices) : \A i \in 1 .. Len(layers) :
            LET d == sent.query_decommitments[q]
                size == Len(layers[i].domain)
                idx == QueryIdx(i, pindices[q])
                sym == (idx + size \div 2) % size
            IN  /\ d.layer_evaluations[i] = layers[i].evaluations[idx + 1]
                /\ d.layer_evaluations_sym[i] = layers[i].evaluations[sym + 1]
                /\ CurrentIdx(params.domain_0_size, i - 1, vindices[q]) = idx
                /\ SymIdx(params.domain_0_size, i - 1, vindices[q]) = sym
                /\ MerkleVerify(d.layer_auth_paths[i], sent.layer_commitments[i],
                                idx, d.layer_evaluations[i])
                /\ MerkleVerify(d.layer_auth_paths_sym[i], sent.layer_commitments[i],
                                sym, d.layer_evaluations_sym[i])

\* a query of the demo at an index of the upper half of the domain, whose opening
\* in the second layer sits at a reduced index and differs from its symmetric one
C13_Witness ==
    /\ Verified
    /\ tamper.kind = "none"
    /\ params.domain_0_size = 32
    /\ \E q \in 1 .. Len(pindices) :
          /\ pindices[q] >= 16
          /\ QueryIdx(2, pindices[q]) # pindices[q]
          /\ sent.query_decommitments[q].layer_evaluations[2]
                 # sent.query_decommitments[q].layer_evaluations_sym[2]

\* C14: constant tail.  For a polynomial of degree <= claimed_degree, with
\* claimed_degree + 1 a power of two, every layer of index >= log2(claimed_degree+1)
\* has all its evaluations equal, and that common value is the proof's
\* last_layer_value, whatever the folding challenges are.
C14_ConstantTail ==
    (/\ Degree(poly) <= input.claimed_degree
     /\ IsPowerOfTwo(input.claimed_degree + 1)) =>
        \A i \in 1 .. Len(layers) :
            i - 1 >= TrailingZeros(input.claimed_degree + 1) =>
                /\ \A j \in 1 .. Len(layers[i].evaluations) :
                      layers[i].evaluations[j] = layers[i].evaluations[1]
                /\ ppc = "done" => layers[i].evaluations[1] = proof.last_layer_value

\* the demo polynomial: layer 1 is not constant, layer 2 (eight points) is, and its
\* value is the last value of the proof
C14_Witness ==
    /\ ppc = "done"
    /\ poly = PolynomialNew(DemoPoly)
    /\ params.domain_0_size = 32
    /\ \E j \in 1 .. 16 : layers[2].evaluations[j] # layers[2].evaluations[1]
    /\ Len(layers[3].evaluations) = 8
    /\ layers[3].evaluations[8] = proof.last_layer_value
    /\ proof.last_layer_value # 0

\* -x
Neg(a) == Sub(0, a)

\* C15: subgroup symmetry.  For the domain of even size N that FriParameters::new
\* builds, domain_0[i + N/2] = -domain_0[i] for every i < N/2, and the same holds
\* in every folded layer domain of size >= 2.
C15_SubgroupSymmetry ==
    params.domain_0_size % 2 = 0 =>
        /\ \A i \in 1 .. (params.domain_0_size \div 2) :
              params.domain_0[i + params.domain_0_size \div 2] = Neg(params.domain_0[i])
        /\ \A l \in 1 .. Len(layers) :
              LET D == layers[l].domain
                  half == Len(D) \div 2
              IN  Len(D) >= 2 => \A i \in 1 .. half : D[i + half] = Neg(D[i])

\* the run of main: n = 8, blowup 8, alpha = (5, 7)
E1Composition ==
    /\ air = [trace_length |-> 8, blowup_factor |-> 8]
    /\ challenges.alphas = <<5, 7>>

\* the verifier's alpha1 is the one the composition was built with
SameAlpha ==
    /\ challenges.ood_alpha1 # <<>>
    /\ challenges.ood_alpha1[1] = challenges.alphas[1]

\* z has been sent and is no point of the LDE domain L
ZOutsideLde ==
    /\ challenges.z # <<>>
    /\ \A i \in 1 .. Len(arithmetization.lde_domain) :
          arithmetization.lde_domain[i] # FromInt(challenges.z[1])

\* z is no point of the trace domain D_n
ZOutsideTraceDomain ==
    \A i \in 1 .. Len(arithmetization.domain) :
        arithmetization.domain[i] # FromInt(challenges.z[1])

\* the run got to the final spot check with an index of the LDE domain
SpotOnLde ==
    /\ challenges.x0_index # <<>>
    /\ challenges.x0_index[1] < Len(arithmetization.lde_domain)

\* C16 as stated: AIR completeness.  For the Fibonacci trace of power-of-two
\* length n, any blowup factor, any alpha1, alpha2, any betas, any z outside the
\* LDE domain and any x0_index < n * blowup, the OOD check passes (H(z) equals the
\* reconstructed H(z)) and the final spot check passes (the reconstructed D(x0)
\* equals deep_poly_lde[x0_index]).
C16_Completeness ==
    (corrupted = NoValue /\ SameAlpha /\ ZOutsideLde) =>
        /\ ood.k = "ok"
        /\ ood.h_z = ood.h_z_reconstructed
        /\ apc = "done" =>
              /\ challenges.x0_index # <<>>
              /\ SpotOnLde => /\ spot.k = "ok"
                              /\ spot.deep_x0 = spot.deep_x0_reconstructed
                              /\ outcome = ProofVerified

\* C16 amended: the same, for z outside the LDE domain and outside the trace
\* domain as well.  The Fibonacci trace of length n >= 2, power-of-two blowup
\* factor: the OOD check passes, the run gets to the final spot check, and for
\* x0_index < n * blowup the spot check passes and the proof is verified.
C16_CompletenessOutsideBothDomains ==
    (corrupted = NoValue /\ SameAlpha /\ ZOutsideLde /\ ZOutsideTraceDomain) =>
        /\ ood.k = "ok"
        /\ ood.h_z = ood.h_z_reconstructed
        /\ apc = "done" =>
              /\ challenges.x0_index # <<>>
              /\ SpotOnLde => /\ spot.k = "ok"
                              /\ spot.deep_x0 = spot.deep_x0_reconstructed
                              /\ outcome = ProofVerified

\* the run of main, to its end: n = 8, blowup 8, alpha = (5, 7), z = 10,
\* beta = (11, 13, 15, 17), x0_index = 5, and the proof is verified
C16_Witness ==
    /\ apc = "done"
    /\ corrupted = NoValue
    /\ E1Composition
    /\ SameAlpha
    /\ challenges.z = <<10>>
    /\ challenges.betas = <<11, 13, 15, 17>>
    /\ challenges.x0_index = <<5>>
    /\ ZOutsideLde
    /\ ZOutsideTraceDomain
    /\ ood.k = "ok"
    /\ spot.k = "ok"
    /\ outcome = ProofVerified

\* the run of main with trace[4] replaced by its value + 1, up to the OOD check:
\* n = 8, blowup 8, alpha = (5, 7), z = 10
E2OodCheck ==
    /\ E1Composition
    /\ corrupted = [k |-> "cell", cell |-> 4, by |-> 1]
    /\ SameAlpha
    /\ challenges.z = <<10>>

\* C17 as stated: mutated trace, spot check.  With the parameters of main and
\* trace[4] replaced by its correct value + 1, the run fails at the final spot
\* check: the reconstructed D(x0) differs from the committed D(x0).
C17_MutatedTraceSpotCheck ==
    (E2OodCheck /\ apc = "done") =>
        /\ spot # NoValue
        /\ spot.k = "panic"
        /\ spot.deep_x0 # spot.deep_x0_reconstructed
        /\ outcome = Panic("Final spot check failed!")

\* C17 amended: with the parameters of main and trace[4] replaced by its correct
\* value + 1, the run fails at the OOD check: H(z) differs from the reconstructed
\* H(z), and neither DeepComposition::new nor the final spot check is reached.
C17_MutatedTraceOodCheck ==
    E2OodCheck =>
        /\ ood.k = "panic"
        /\ ood.h_z # ood.h_z_reconstructed
        /\ apc = "done"
        /\ outcome = Panic("Out-of-domain check failed!")
        /\ deep_composition = NoValue
        /\ spot = NoValue

\* the mutated run has ended, at the OOD check
C17_Witness ==
    /\ E2OodCheck
    /\ apc = "done"
    /\ fib_trace = <<1, 1, 2, 3, 6, 8, 13, 21>>
    /\ ood.k = "panic"
    /\ outcome = Panic("Out-of-domain check failed!")

\* one cell other than the last was replaced
CorruptedNotLast ==
    /\ corrupted # NoValue
    /\ corrupted.cell < air.trace_length - 1

\* C18: a corrupted trace is rejected.  With one cell other than the last of the
\* Fibonacci trace replaced by a different value, the run that takes the trace
\* through Arithmetization::new, Composition::new, perform_ood_check,
\* DeepComposition::new and perform_final_spot_check fails at the OOD check or at
\* the final spot check, for the challenges of the model and z outside the domains.
C18_CorruptedTraceRejected ==
    (CorruptedNotLast /\ SameAlpha /\ ZOutsideLde /\ ZOutsideTraceDomain) =>
        /\ apc = "done"
        /\ outcome # ProofVerified
        /\ \/ /\ ood.k = "panic"
              /\ ood.h_z # ood.h_z_reconstructed
              /\ outcome = Panic("Out-of-domain check failed!")
           \/ /\ spot # NoValue
              /\ spot.k = "panic"
              /\ outcome = Panic("Final spot check failed!")

\* a run with a cell other than trace[4] replaced, by a trace of length 4, that
\* has ended at the OOD check
C18_Witness ==
    /\ CorruptedNotLast
    /\ air.trace_length = 4
    /\ corrupted.cell = 0
    /\ fib_trace[1] # 1
    /\ SameAlpha
    /\ ZOutsideLde
    /\ ZOutsideTraceDomain
    /\ apc = "done"
    /\ ood.k = "panic"
    /\ outcome = Panic("Out-of-domain check failed!")

\* C19: challenge binding.  With the composition polynomial built with alpha1 = 5
\* and perform_ood_check run with alpha1 + 1 = 6 (same alpha2 = 7, z = 10, the
\* Fibonacci trace of length 8, blowup 8), the OOD check fails: H(z) differs from
\* the reconstructed H(z).
C19_ChallengeBinding ==
    (/\ corrupted = NoValue
     /\ E1Composition
     /\ challenges.ood_alpha1 = <<6>>
     /\ challenges.z = <<10>>) =>
        /\ ood.k = "panic"
        /\ ood.h_z # ood.h_z_reconstructed
        /\ apc = "done"
        /\ outcome = Panic("Out-of-domain check failed!")

\* the run of main with the verifier's alpha1 one more than the prover's has
\* ended at the OOD check, the reconstruction being off by B(z)
C19_Witness ==
    /\ corrupted = NoValue
    /\ E1Composition
    /\ challenges.ood_alpha1 = <<6>>
    /\ challenges.z = <<10>>
    /\ apc = "done"
    /\ ood.k = "panic"
    /\ ood.h_z_reconstructed # ood.h_z
    /\ outcome = Panic("Out-of-domain check failed!")

\* C20: the constraint quotients are low degree.  For the Fibonacci trace of
\* length n, boundary_constraint_poly_lde and transition_constraint_poly_lde are
\* the evaluations on the LDE domain of polynomials B and T of degree <= n - 1,
\* and composition_poly has degree <= n - 1.
C20_QuotientsLowDegree ==
    /\ (corrupted = NoValue /\ apc = "composition") =>
          LET B == InterpolateOffsetFft(arithmetization.boundary_constraint_poly_lde,
                                        FromInt(COSET_OFFSET))
              T == InterpolateOffsetFft(arithmetization.transition_constraint_poly_lde,
                                        FromInt(COSET_OFFSET))
          IN  /\ B # NoValue
              /\ T # NoValue
              /\ Degree(B.v) <= arithmetization.trace_length - 1
              /\ Degree(T.v) <= arithmetization.trace_length - 1
              /\ \A i \in 1 .. Len(arithmetization.lde_domain) :
                    /\ Evaluate(B.v, arithmetization.lde_domain[i])
                          = arithmetization.boundary_constraint_poly_lde[i]
                    /\ Evaluate(T.v, arithmetization.lde_domain[i])
                          = arithmetization.transition_constraint_poly_lde[i]
    /\ (corrupted = NoValue /\ composition # NoValue) =>
          /\ Degree(composition.composition_poly) <= arithmetization.trace_length - 1
          /\ Len(composition.composition_poly_lde) = Len(arithmetization.lde_domain)

\* the trace of main arithmetized: 64 evaluations each of B and T, neither
\* zero everywhere, for a trace domain of 8 points
C20_Witness ==
    /\ corrupted = NoValue
    /\ apc = "composition"
    /\ air = [trace_length |-> 8, blowup_factor |-> 8]
    /\ Len(arithmetization.boundary_constraint_poly_lde) = 64
    /\ \E i \in 1 .. 64 : arithmetization.boundary_constraint_poly_lde[i] # 0
    /\ \E i \in 1 .. 64 : arithmetization.transition_constraint_poly_lde[i] # 0

\* Arithmetization::new has been called on a slice of power-of-two length >= 2
ArithmetizationCalled ==
    /\ fib_trace # NoValue
    /\ IsPowerOfTwo(air.trace_length)
    /\ apc \notin {"start", "arithmetization"}

\* C21: the LDE coset is disjoint from the trace domain.  For every power-of-two
\* trace length n and blowup factor b, no point of lde_domain (offset 3, size
\* n * b) lies in the trace domain D_n; x^n - 1, (x - g^0)(x - g^1) and
\* (x - g^(n-2))(x - g^(n-1)) are nonzero at every LDE point, and every batched
\* inversion of Arithmetization::new succeeds, whatever the trace holds.
C21_LdeCosetDisjoint ==
    ArithmetizationCalled =>
        /\ arithmetization # NoValue
        /\ arithmetization.k = "ok"
        /\ Len(arithmetization.lde_domain) = air.trace_length * air.blowup_factor
        /\ \A i \in 1 .. Len(arithmetization.lde_domain) :
              LET x == arithmetization.lde_domain[i]
                  n == arithmetization.trace_length
                  domain == arithmetization.domain
              IN  /\ \A j \in 1 .. n : domain[j] # x
                  /\ Sub(Pow(x, n), 1) # 0
                  /\ Mul(Sub(x, domain[1]), Sub(x, domain[2])) # 0
                  /\ Mul(Sub(x, domain[n - 1]), Sub(x, domain[n])) # 0

\* the arithmetization of main: 64 LDE points, the first of them the offset 3,
\* for a trace domain of 8 points that starts at 1
C21_Witness ==
    /\ ArithmetizationCalled
    /\ air = [trace_length |-> 8, blowup_factor |-> 8]
    /\ arithmetization # NoValue
    /\ Len(arithmetization.lde_domain) = 64
    /\ arithmetization.lde_domain[1] = COSET_OFFSET
    /\ Len(arithmetization.domain) = 8
    /\ arithmetization.domain[1] = 1

\* C22: multiplicative inverse in the toolkit field.  For every a with
\* 1 <= a < p, PrimeField::mul(a, PrimeField::inv(a)) = 1, inv being
\* mod_pow(a, p - 2, p), and no product computed on the way exceeds the word.
C22_MultiplicativeInverse ==
    /\ tk.pc # "off" => ~tk.wrapped
    /\ (tk.pc = "done" /\ tk.a >= 1) =>
          /\ tk.outcome = [k |-> "ok"]
          /\ tk.inv \in 1 .. (PRIME - 1)
          /\ tk.product = 1

\* the test has ended for the largest element: p - 1 is its own inverse, and
\* (p - 1)^2 is the largest product the field can ask of the word
C22_Witness ==
    /\ tk.pc = "done"
    /\ tk.a = PRIME - 1
    /\ tk.inv = PRIME - 1
    /\ tk.product = 1
    /\ ~MulOverflows(tk.a, tk.inv)
    /\ (PRIME - 1) * (PRIME - 1) > WORD \div 8

\* the opening of layer i (0-based) of one query is authentic, at the query index
\* and at its symmetric index
OpeningAuthentic(pr, n0, query_idx, d, i) ==
    /\ MerkleVerify(d.layer_auth_paths[i + 1], pr.layer_commitments[i + 1],
                    CurrentIdx(n0, i, query_idx), d.layer_evaluations[i + 1])
    /\ MerkleVerify(d.layer_auth_paths_sym[i + 1], pr.layer_commitments[i + 1],
                    SymIdx(n0, i, query_idx), d.layer_evaluations_sym[i + 1])

\* the fold of the opening of layer i (0-based) is the value opened in layer i + 1,
\* or the last value of the proof for the last but one layer
FoldConsistent(pr, n0, query_idx, d, betas, generator, i) ==
    LET claimed == IF i = Len(pr.layer_commitments) - 2 THEN pr.last_layer_value
                   ELSE d.layer_evaluations[i + 2]
        x == Pow(Pow(generator, Pow2(i)), query_idx % Shr(n0, i))
    IN  claimed = ExpectedChild(d.layer_evaluations[i + 1], d.layer_evaluations_sym[i + 1],
                                x, betas[i + 1])

\* query q (1-based) of the proof handed to verify has authentic openings in
\* layer i
SentAuthentic(q, i) ==
    OpeningAuthentic(sent, params.domain_0_size, vindices[q], sent.query_decommitments[q], i)

\* query q (1-based) of the proof handed to verify folds consistently at layer i
SentConsistent(q, i) ==
    FoldConsistent(sent, params.domain_0_size, vindices[q], sent.query_decommitments[q],
                   vbetas, VerifierGenerator, i)

\* verify has returned Ok or one of the two errors
Returned ==
    /\ vpc = "done"
    /\ result.k \in {"Ok", "InvalidMerkleProof", "InconsistentFolding"}

\* C23: order of the verifier's checks.  Queries are verified in index order and
\* verification stops at the first failing check; within one query the Merkle
\* openings of all layers are checked before any folding check, and the folding
\* checks run from layer L - 2 down to layer 0.  A query with an invalid Merkle
\* path and an inconsistent fold yields InvalidMerkleProof, and a reported
\* InconsistentFolding{layer} names the highest inconsistent layer of the first
\* failing query.
C23_CheckOrder ==
    Returned =>
        LET L == Len(sent.layer_commitments)
            q == query_num + 1
        IN  /\ \A e \in 1 .. query_num :
                  /\ \A i \in 0 .. (L - 1) : SentAuthentic(e, i)
                  /\ \A i \in 0 .. (L - 2) : SentConsistent(e, i)
            /\ result = Ok => query_num = Len(sent.query_decommitments)
            /\ result # Ok =>
                  /\ query_num < Len(sent.query_decommitments)
                  /\ IF \E i \in 0 .. (L - 1) : ~SentAuthentic(q, i)
                     THEN result = InvalidMerkleProof
                     ELSE /\ result.k = "InconsistentFolding"
                          /\ result.layer \in 0 .. (L - 2)
                          /\ ~SentConsistent(q, result.layer)
                          /\ \A i \in (result.layer + 1) .. (L - 2) : SentConsistent(q, i)

\* a proof with a forged layer, authentic openings, and both folds of the first
\* query inconsistent: verify reports layer 1, the higher one
C23_Witness ==
    /\ Returned
    /\ tamper.kind = "forged_layer"
    /\ Len(sent.layer_commitments) = 3
    /\ query_num = 0
    /\ \A i \in 0 .. 2 : SentAuthentic(1, i)
    /\ ~SentConsistent(1, 0)
    /\ ~SentConsistent(1, 1)
    /\ result.k = "InconsistentFolding"
    /\ result.layer = 1

\* a second query with an invalid Merkle path and an inconsistent fold, after a
\* first query that passed: verify reports InvalidMerkleProof
C23_InvalidPathAndFold ==
    /\ Returned
    /\ tamper.kind = "opening"
    /\ query_num = 1
    /\ \E i \in 0 .. (Len(sent.layer_commitments) - 1) : ~SentAuthentic(2, i)
    /\ \E i \in 0 .. (Len(sent.layer_commitments) - 2) : ~SentConsistent(2, i)
    /\ result = InvalidMerkleProof

RECURSIVE RootsAndSqueezes(_, _)
\* roots[1], then a squeeze before each further root, up to roots[n]
RootsAndSqueezes(roots, n) ==
    IF n = 0 THEN TranscriptNew(PROTOCOL_ID)
    ELSE IF n = 1 THEN Append(TranscriptNew(PROTOCOL_ID), roots[1])
    ELSE Append(Append(RootsAndSqueezes(roots, n - 1), [k |-> "squeeze"]), roots[n])

\* the transcript after n roots, the last value, and q squeezed query indices
RootsValueAndQueries(roots, n, value, q) ==
    RootsAndSqueezes(roots, n) \o <<AsBytes(value)>> \o [j \in 1 .. q |-> [k |-> "squeeze"]]

\* the roots of the prover's layers
LayerRoots == [i \in 1 .. Len(layers) |-> layers[i].root]

\* C24: Fiat-Shamir ordering.  In the prover root_0 is absorbed before any
\* squeeze; beta_i is squeezed after root_i is absorbed and before layer i+1 is
\* computed and root_{i+1} absorbed; the last-layer value is absorbed after all
\* roots; every query index is squeezed only after all L roots and the last value
\* are absorbed.  The verifier's replay squeezes beta_i before absorbing
\* layer_commitments[i+1].
C24_FiatShamirOrder ==
    /\ ppc = "commit" => ptranscript = RootsAndSqueezes(<<>>, 0)
    /\ ppc = "fold" =>
          /\ ptranscript = RootsAndSqueezes(LayerRoots, Len(layers))
          /\ pindices = <<>>
    /\ ppc \in {"query", "done"} =>
          /\ ptranscript =
                 RootsValueAndQueries(LayerRoots, Len(layers), LastValue, Len(pindices))
          /\ \A q \in 1 .. Len(pindices) :
                pindices[q] =
                    SampleIndex(oracle[RootsValueAndQueries(LayerRoots, Len(layers),
                                                            LastValue, q - 1)],
                                params.domain_0_size)
    /\ ppc \in {"fold", "query", "done"} =>
          /\ Len(pbetas) = Len(layers) - 1
          /\ \A i \in 1 .. Len(pbetas) :
                /\ pbetas[i] = SampleFieldElement(oracle[RootsAndSqueezes(LayerRoots, i)])
                /\ layers[i + 1].evaluations =
                       FoldEvaluations(layers[i].evaluations, layers[i].domain, pbetas[i])[1]
    /\ vpc = "absorb" => vtranscript = RootsAndSqueezes(<<>>, 0)
    /\ vpc = "betas" =>
          /\ vtranscript = RootsAndSqueezes(sent.layer_commitments, Len(vbetas) + 1)
          /\ \A i \in 1 .. Len(vbetas) :
                vbetas[i] =
                    SampleFieldElement(oracle[RootsAndSqueezes(sent.layer_commitments, i)])
    /\ (vpc \in {"indices", "done"} /\ result.k # "panic") =>
          /\ Len(vbetas) = Len(sent.layer_commitments) - 1
          /\ vtranscript =
                 RootsValueAndQueries(sent.layer_commitments, Len(sent.layer_commitments),
                                      sent.last_layer_value, Len(vindices))

\* prove and the replay have finished with three roots, two betas and two
\* query indices in the transcripts
C24_Witness ==
    /\ ppc = "done"
    /\ vpc = "done"
    /\ Len(layers) = 3
    /\ Len(pbetas) = 2
    /\ Len(pindices) = 2
    /\ Len(vbetas) = 2
    /\ ptranscript[2] = layers[1].root
    /\ ptranscript[3] = [k |-> "squeeze"]
    /\ ptranscript[6] = layers[3].root
    /\ ptranscript[7] = AsBytes(LastValue)
    /\ ptranscript[8] = [k |-> "squeeze"]
    /\ vtranscript[3] = [k |-> "squeeze"]
    /\ vtranscript[4] = sent.layer_commitments[2]

\* D(x) (x - z)(x - zg)(x - zg^2) against the four numerators of the DEEP
\* polynomial, each times the two denominators that are not its own
DeepIdentityAt(x, d_x, z, g, betas) ==
    LET H == composition.composition_poly
        t == arithmetization.trace_poly
        zg == Mul(z, g)
        zg2 == Mul(z, Square(g))
        at_z == Sub(x, z)
        at_zg == Sub(x, zg)
        at_zg2 == Sub(x, zg2)
        h_term == Mul(Mul(betas[1], Sub(Evaluate(H, x), Evaluate(H, z))),
                      Mul(at_zg, at_zg2))
        t_term == Mul(Mul(betas[2], Sub(Evaluate(t, x), Evaluate(t, z))),
                      Mul(at_zg, at_zg2))
        tg_term == Mul(Mul(betas[3], Sub(Evaluate(t, x), Evaluate(t, zg))),
                       Mul(at_z, at_zg2))
        tg2_term == Mul(Mul(betas[4], Sub(Evaluate(t, x), Evaluate(t, zg2))),
                        Mul(at_z, at_zg))
    IN  /\ at_z # 0
        /\ at_zg # 0
        /\ at_zg2 # 0
        /\ Mul(d_x, Mul(at_z, Mul(at_zg, at_zg2)))
               = Add(Add(h_term, t_term), Add(tg_term, tg2_term))

\* DeepComposition::new has returned for the Fibonacci trace
DeepBuilt == corrupted = NoValue /\ deep_composition # NoValue

\* C25: the DEEP polynomial is low degree.  For a correct trace and the true
\* out-of-domain values, deep_poly_lde equals at every LDE point x the
\* beta-weighted sum of the four quotients, and is the evaluation on the LDE
\* domain of a polynomial of degree <= n - 2.
C25_DeepLowDegree ==
    DeepBuilt =>
        LET D == InterpolateOffsetFft(deep_composition.deep_poly_lde, FromInt(COSET_OFFSET))
        IN  /\ Len(deep_composition.deep_poly_lde) = Len(arithmetization.lde_domain)
            /\ \A i \in 1 .. Len(arithmetization.lde_domain) :
                  DeepIdentityAt(arithmetization.lde_domain[i],
                                 deep_composition.deep_poly_lde[i],
                                 FromInt(challenges.z[1]),
                                 arithmetization.domain_generator, challenges.betas)
            /\ D # NoValue
            /\ Degree(D.v) <= arithmetization.trace_length - 2
            /\ \A i \in 1 .. Len(arithmetization.lde_domain) :
                  Evaluate(D.v, arithmetization.lde_domain[i])
                      = deep_composition.deep_poly_lde[i]

\* the DEEP polynomial of the trace of main: 64 evaluations of a polynomial of
\* degree 6
C25_Witness ==
    /\ DeepBuilt
    /\ air = [trace_length |-> 8, blowup_factor |-> 8]
    /\ Len(deep_composition.deep_poly_lde) = 64
    /\ Degree(InterpolateOffsetFft(deep_composition.deep_poly_lde,
                                   FromInt(COSET_OFFSET)).v) = 6

\* verify has returned Ok(())
Accepted == vpc = "done" /\ result = Ok

\* C26: the query count is enforced.  verify returns Ok only if the proof holds
\* exactly params.num_queries query decommitments and each of them passed the
\* Merkle check and the folding check; a proof with fewer (e.g. zero) query
\* decommitments is not accepted.
C26_QueryCountEnforced ==
    Accepted =>
        /\ Len(sent.query_decommitments) = params.num_queries
        /\ query_num = params.num_queries

\* C27: the number of layers is enforced.  verify returns Ok only if
\* proof.layer_commitments has log2(N_0) + 1 entries for the verifier's own
\* initial domain size N_0; a proof with fewer layer commitments (e.g. a single
\* one) is not accepted.
C27_LayerCountEnforced ==
    Accepted => Len(sent.layer_commitments) = TrailingZeros(params.domain_0_size) + 1

\* C28: the last value is bound to the last commitment.  Whenever verify accepts
\* a proof, for every query the evaluation opened in the final layer equals
\* proof.last_layer_value.
C28_LastValueBound ==
    Accepted =>
        \A q \in 1 .. Len(sent.query_decommitments) :
            sent.query_decommitments[q].layer_evaluations[Len(sent.layer_commitments)]
                = sent.last_layer_value

\* r is the panic of an unwrap on a failed inversion
FailedInversion(r) == r.k = "panic" /\ r.why = "unwrap of Err"

\* none of perform_ood_check, DeepComposition::new and perform_final_spot_check
\* has failed an inversion so far, and each of the three that main got to has
\* completed
InversionsSucceeded ==
    /\ ~FailedInversion(ood)
    /\ ~FailedInversion(spot)
    /\ ~FailedInversion(outcome)
    /\ ood.k = "ok" => (apc = "deep" \/ deep_composition.k = "ok")
    /\ (apc = "done" /\ deep_composition.k = "ok") => spot.k \in {"ok", "panic"}

\* C29 as stated: for every z not in the LDE domain L (correct trace),
\* perform_ood_check, DeepComposition::new and perform_final_spot_check complete
\* without a failed inversion.
C29_NoFailedInversion ==
    (corrupted = NoValue /\ ZOutsideLde) => InversionsSucceeded

\* C29 amended: the same for every z that is neither in the LDE domain L nor in
\* the trace domain D_n; for z in D_n perform_ood_check panics on the inverse of
\* a zerofier that is zero at z.
C29_NoFailedInversionOutsideBothDomains ==
    (corrupted = NoValue /\ ZOutsideLde /\ ZOutsideTraceDomain) => InversionsSucceeded

\* the three calls have returned for z = 2, with the last LDE index opened in
\* the spot check
C29_Witness ==
    /\ apc = "done"
    /\ corrupted = NoValue
    /\ E1Composition
    /\ challenges.z = <<2>>
    /\ challenges.x0_index = <<63>>
    /\ ZOutsideLde
    /\ ZOutsideTraceDomain
    /\ ood.k = "ok"
    /\ deep_composition.k = "ok"
    /\ spot.k = "ok"

\* C30: repeated calls are stable.  verify called twice on the same Verifier
\* instance with the same proof returns the same result both times (Ok twice for
\* an honest proof), and prove called twice on the same Prover instance returns
\* the same proof.
C30_RepeatedCallsStable ==
    /\ (vpc = "done" /\ EarlierCalls("verify") # <<>>) =>
          result = EarlierCalls("verify")[1].returned
    /\ (ppc = "done" /\ EarlierCalls("prove") # <<>>) =>
          proof = EarlierCalls("prove")[1].returned

====
